---- MODULE Spec2Model ----
(***************************************************************************)
(* A model of the noise generator's real-time core: the NoiseProcessor     *)
(* audio worklet (xoshiro128++ generators, seed queue, backpressure, mode  *)
(* crossfade), the EntropyFeeder that supplies it with seed batches, and   *)
(* the two message channels between them.                                  *)
(*                                                                         *)
(* A 32-bit unsigned word is the pair <<hi, lo>> of its 16-bit halves, so   *)
(* that every intermediate value fits TLC's 32-bit integers; shifts,        *)
(* rotations, XOR, OR and addition are computed on the halves as the       *)
(* source computes them on ToUint32 values, all modulo 2^32.               *)
(***************************************************************************)
EXTENDS Integers, Sequences, FiniteSets, TLC

\* ---------------------------------------------------------------------
\* 32-bit words
\* ---------------------------------------------------------------------

Half == 65536

\* The word whose upper and lower 16-bit halves are hi and lo.
Word(hi, lo) == <<hi, lo>>

\* The word of a small non-negative integer (below 2^16).
W(n) == Word(0, n)

\* Bitwise XOR and OR of two non-negative integers.
RECURSIVE XorInt(_, _)
XorInt(a, b) ==
  IF a = 0 THEN b
  ELSE IF b = 0 THEN a
  ELSE ((a + b) % 2) + 2 * XorInt(a \div 2, b \div 2)

RECURSIVE OrInt(_, _)
OrInt(a, b) ==
  IF a = 0 THEN b
  ELSE IF b = 0 THEN a
  ELSE (IF a % 2 = 1 \/ b % 2 = 1 THEN 1 ELSE 0) + 2 * OrInt(a \div 2, b \div 2)

\* The two operations on bytes, tabulated once.
XorByte == [a \in 0..255 |-> [b \in 0..255 |-> XorInt(a, b)]]
OrByte == [a \in 0..255 |-> [b \in 0..255 |-> OrInt(a, b)]]

XorHalf(a, b) == 256 * XorByte[a \div 256][b \div 256] + XorByte[a % 256][b % 256]
OrHalf(a, b) == 256 * OrByte[a \div 256][b \div 256] + OrByte[a % 256][b % 256]

\* (a ^ b) >>> 0 and (a | b) >>> 0
Xor(a, b) == <<XorHalf(a[1], b[1]), XorHalf(a[2], b[2])>>
Or(a, b) == <<OrHalf(a[1], b[1]), OrHalf(a[2], b[2])>>

\* (x << k) >>> 0, for k in 0..31
Shl(x, k) ==
  IF k >= 16 THEN <<(x[2] * 2^(k - 16)) % Half, 0>>
  ELSE <<((x[1] * 2^k) % Half) + (x[2] \div 2^(16 - k)), (x[2] * 2^k) % Half>>

\* x >>> k, for k in 1..32
Shr(x, k) ==
  IF k >= 32 THEN <<0, 0>>
  ELSE IF k >= 16 THEN <<0, x[1] \div 2^(k - 16)>>
  ELSE <<x[1] \div 2^k, (x[2] \div 2^k) + ((x[1] % 2^k) * 2^(16 - k))>>

\* (a + b) >>> 0: the carry out of bit 31 is dropped.
Add32NoWrap(a, b) ==
  LET lo == a[2] + b[2]
  IN  <<a[1] + b[1] + (lo \div Half), lo % Half>>

Add32(a, b) ==
  LET lo == a[2] + b[2]
      hi == a[1] + b[1] + (lo \div Half)
  IN  <<hi % Half, lo % Half>>

\* (x * y) mod 2^16 and the 32-bit product x * y of two 16-bit halves,
\* computed through the bytes of x so that no intermediate value
\* reaches 2^31.
MulLow(x, y) == ((x % 256) * y + (((x \div 256) * (y % 256)) % 256) * 256) % Half

MulWide(x, y) ==
  LET low == (x % 256) * y
      mid == (x \div 256) * y
      sum == low + (mid % 256) * 256
  IN  <<(mid \div 256) + (sum \div Half), sum % Half>>

\* Math.imul(a, b) >>> 0: the low 32 bits of the product.
Mul32(a, b) ==
  LET p == MulWide(a[2], b[2])
  IN  <<(p[1] + MulLow(a[1], b[2]) + MulLow(a[2], b[1])) % Half, p[2]>>

\* ---------------------------------------------------------------------
\* xoshiro128++ (NoiseProcessor.ts)
\* ---------------------------------------------------------------------

\* ((x << k) | (x >>> (32 - k))) >>> 0
rotlNoWrap(x, k) == Shl(x, k)

rotl(x, k) == Or(Shl(x, k), Shr(x, 32 - k))

xoshiroResult(state) == Add32(rotl(Add32(state.s0, state.s3), 7), state.s0)

xoshiroNext(state) ==
  LET t  == Shl(state.s1, 9)
      a2 == Xor(state.s2, state.s0)
      a3 == Xor(state.s3, state.s1)
      a1 == Xor(state.s1, a2)
      a0 == Xor(state.s0, a3)
  IN  [s0 |-> a0, s1 |-> a1, s2 |-> Xor(a2, t), s3 |-> rotl(a3, 11)]

\* The same operators on the 32 bits of a word, bit 0 the lowest: what
\* <<, >>>, |, ^, + and >>> 0 mean on ToUint32 operands.
BitOf(x, i) == IF i >= 16 THEN (x[1] \div 2^(i - 16)) % 2 ELSE (x[2] \div 2^i) % 2

Bits(x) == [i \in 0..31 |-> BitOf(x, i)]

ShlBits(a, k) == [i \in 0..31 |-> IF i >= k THEN a[i - k] ELSE 0]

ShrBits(a, k) == [i \in 0..31 |-> IF i + k <= 31 THEN a[i + k] ELSE 0]

OrBits(a, b) == [i \in 0..31 |-> IF a[i] + b[i] > 0 THEN 1 ELSE 0]

XorBits(a, b) == [i \in 0..31 |-> (a[i] + b[i]) % 2]

RECURSIVE CarryInto(_, _, _)
CarryInto(a, b, i) ==
  IF i = 0 THEN 0 ELSE (a[i - 1] + b[i - 1] + CarryInto(a, b, i - 1)) \div 2

AddBits(a, b) == [i \in 0..31 |-> (a[i] + b[i] + CarryInto(a, b, i)) % 2]

RotlBits(a, k) == OrBits(ShlBits(a, k), ShrBits(a, 32 - k))

\* One generator step on bits: the result and the four words left.
StepBits(state) ==
  LET s0 == Bits(state.s0)
      s1 == Bits(state.s1)
      s2 == Bits(state.s2)
      s3 == Bits(state.s3)
      result == AddBits(RotlBits(AddBits(s0, s3), 7), s0)
      t  == ShlBits(s1, 9)
      b2 == XorBits(s2, s0)
      b3 == XorBits(s3, s1)
      b1 == XorBits(s1, b2)
      b0 == XorBits(s0, b3)
  IN  [result |-> result, s0 |-> b0, s1 |-> b1, s2 |-> XorBits(b2, t),
       s3 |-> RotlBits(b3, 11)]

\* nextSignedFloat: (result / 0x100000000) * 2 - 1, which is exact in a
\* double, as the pair <<hi, lo>> with value (hi * 2^16 + lo) / 2^31.
nextSignedFloat(result) == <<result[1] - 32768, result[2]>>

\* initState: the four seed words, each with its default when absent.
initState(seeds) ==
  [s0 |-> IF Len(seeds) >= 1 THEN seeds[1] ELSE Word(4660, 22136),
   s1 |-> IF Len(seeds) >= 2 THEN seeds[2] ELSE Word(39612, 57072),
   s2 |-> IF Len(seeds) >= 3 THEN seeds[3] ELSE Word(57005, 48879),
   s3 |-> IF Len(seeds) >= 4 THEN seeds[4] ELSE Word(51966, 47806)]

\* The state after k calls of xoshiroNext with the results discarded.
RECURSIVE Advance(_, _)
Advance(state, k) == IF k = 0 THEN state ELSE Advance(xoshiroNext(state), k - 1)

\* The word loop of mixEntropy: word i (0-based) goes to field s(i mod 4).
RECURSIVE MixWords(_, _, _)
MixWords(state, words, i) ==
  IF i >= Len(words) THEN state
  ELSE LET word == words[i + 1]
           next == CASE i % 4 = 0 -> [state EXCEPT !.s0 = Xor(state.s0, word)]
                     [] i % 4 = 1 -> [state EXCEPT !.s1 = Xor(state.s1, rotl(word, 5))]
                     [] i % 4 = 2 -> [state EXCEPT !.s2 = Xor(state.s2, rotl(word, 13))]
                     [] i % 4 = 3 -> [state EXCEPT !.s3 = Xor(state.s3, rotl(word, 21))]
       IN  MixWords(next, words, i + 1)

DiffusionSteps == 8

mixNonEmpty(state, words) ==
  IF words = <<>> THEN state ELSE Advance(MixWords(state, words, 0), DiffusionSteps)

mixEntropy(state, words) == Advance(MixWords(state, words, 0), DiffusionSteps)

\* ---------------------------------------------------------------------
\* The brown filter. Its numbers are held in ten-thousandths, and the
\* rounding of an operation may go either way.
\* ---------------------------------------------------------------------

\* The number 1.
Unit == 10000

\* initBrownState(sampleRate): decay = exp(-1 / (sampleRate * 0.02)) by
\* its series, scale = 1 - decay, gain = sqrt((1 + decay) / (1 - decay)) * 0.5.
initBrownState(rate) ==
  LET RECURSIVE Series(_, _)
      Series(term, k) ==
        IF term = 0 THEN 0 ELSE term - Series((term * 50) \div (rate * k), k + 1)
      decay == (Series(100 * Unit, 1) + 50) \div 100
      ratio == ((Unit + decay) * Unit) \div (Unit - decay)
      RECURSIVE Root(_, _)
      Root(low, high) ==
        IF high - low <= 1 THEN low
        ELSE LET middle == (low + high) \div 2
             IN  IF middle * middle <= ratio * Unit THEN Root(middle, high)
                 ELSE Root(low, middle)
      root == Root(0, 4 * Unit)
  IN  [b |-> 0, decay |-> decay, scale |-> Unit - decay, gain |-> root \div 2]

\* A leaky integrator without the leak and without the clamp.
brownIntegrate(brown, white, up) ==
  LET v == Unit * brown.b + brown.scale * white
  IN  [brown EXCEPT !.b = IF up THEN -((-v) \div Unit) ELSE v \div Unit]

\* brownFilter(brown, white): the state after the call; up is the way
\* the sum is rounded.
brownFilter(brown, white, up) ==
  LET v == brown.decay * brown.b + brown.scale * white
      b == IF up THEN -((-v) \div Unit) ELSE v \div Unit
  IN  [brown EXCEPT !.b = IF b > Unit THEN Unit ELSE IF b < -Unit THEN -Unit ELSE b]

\* ---------------------------------------------------------------------
\* Rationals <<numerator, denominator>> in lowest terms: the value of
\* crossfadeProgress if the additions of 1/remaining were exact.
\* ---------------------------------------------------------------------

RECURSIVE GCD(_, _)
GCD(a, b) == IF b = 0 THEN a ELSE GCD(b, a % b)

Rat(n, d) == LET g == GCD(n, d) IN <<n \div g, d \div g>>

RatAdd(p, q) == Rat(p[1] * q[2] + q[1] * p[2], p[2] * q[2])

RatGeq(p, q) == p[1] * q[2] >= q[1] * p[2]

RatZero == <<0, 1>>
RatOne == <<1, 1>>

\* ---------------------------------------------------------------------
\* EntropyRng (EntropyRng.ts): the pool that produces the seed words
\* ---------------------------------------------------------------------

POOL_SIZE == 8

\* Math.imul(a, b) >>> 0
imul32(a, b) == Mul32(a, b)

\* ((x << k) | (x >>> (32 - k))) >>> 0
rotl32(x, k) == Or(Shl(x, k), Shr(x, 32 - k))

\* mixWord(pool, word, index): the pool with slot index (0-based) remixed.
mixWordFirstSlot(pool, word, index) ==
  LET mixed == Xor(pool[1], rotl32(word, 13))
  IN  [pool EXCEPT ![1] = Xor(imul32(mixed, Word(40503, 31161)), rotl32(mixed, 17))]

mixWord(pool, word, index) ==
  IF index < 0 \/ index >= Len(pool) THEN pool
  ELSE LET mixed == Xor(pool[index + 1], rotl32(word, 13))
       IN  [pool EXCEPT ![index + 1] =
              Xor(imul32(mixed, Word(40503, 31161)), rotl32(mixed, 17))]

\* stir(word) on the record r = [pool, counter, stirIndex].
stirNoWrap(r, word) ==
  [r EXCEPT !.pool = mixWord(r.pool, word, r.stirIndex),
            !.stirIndex = r.stirIndex + 1]

stir(r, word) ==
  [r EXCEPT !.pool = mixWord(r.pool, word, r.stirIndex),
            !.stirIndex = (r.stirIndex + 1) % POOL_SIZE]

\* nextU32() with the word fresh drawn from crypto.getRandomValues: the
\* record after the call, and the word returned.
nextU32ReadBeforeStir(r, fresh) ==
  LET counted == [r EXCEPT !.counter = r.counter + 1]
      output  == Xor(r.pool[(counted.counter % POOL_SIZE) + 1], fresh)
  IN  [rng |-> stir(stir(counted, W(counted.counter)), output), word |-> output]

nextU32(r, fresh) ==
  LET counted == [r EXCEPT !.counter = r.counter + 1]
      stirred == stir(counted, W(counted.counter))
      output  == Xor(stirred.pool[(counted.counter % POOL_SIZE) + 1], fresh)
  IN  [rng |-> stir(stirred, output), word |-> output]

\* getWords(count), call i (0-based) of nextU32 drawing fresh[i + 1].
RECURSIVE GetWordsFrom(_, _, _, _, _)
GetWordsFrom(r, count, fresh, i, words) ==
  IF i >= count THEN [rng |-> r, words |-> words]
  ELSE LET n == nextU32(r, fresh[i + 1])
       IN  GetWordsFrom(n.rng, count, fresh, i + 1, Append(words, n.word))

getWords(r, count, fresh) == GetWordsFrom(r, count, fresh, 0, <<>>)

\* ---------------------------------------------------------------------
\* Bounds of the exploration
\* ---------------------------------------------------------------------

\* The sample rates of the render context, scaled down so that a fade
\* (50 ms) and a seed period (500 ms) are a few samples long; a host rate
\* of 48000 gives 2400 and 24000 samples.
MinRate == 20
MaxRate == 160
SampleRates == {MinRate, MaxRate}

\* currentFrame at construction: a multiple of the 128-frame quantum.
Frames == {128}

\* currentFrame at the construction of a second processor.
TwinFrames == {256}

\* The render block sizes the host hands to process().
MaxBlock == 4
BlockSizes == {3, MaxBlock}

\* Samples rendered in one behaviour: with mode requests, with the feeder
\* answering, and with the feeder's message handler never running.
MaxSamples == 24
MaxFedSamples == 16
MaxUnfedSamples == 30

\* Seed batches the feeder sends in one behaviour.
MaxSends == 3

\* initial-seeds messages received in one behaviour.
MaxInitMsgs == 2

\* Samples rendered, and batches queued at once, in a behaviour with
\* entropy-seeds messages of any payload.
MaxPayloadSamples == 4
MaxQueued == 1

\* EntropyRng alone: animation-frame callbacks pending at once, callbacks
\* run, ambient events handled and single words drawn by the page.
MaxFrames == 2
MaxTicks == 1
MaxEvents == 1
MaxDraws == 1

\* Single stir() calls made on pools just created: enough for the cursor
\* to come round to slot 0.
MaxStirs == 8

\* What the ambient sources report: pointer and wheel coordinates (which
\* may be negative), a key code, scroll offsets, a window size, event
\* times in microseconds, and the two timing words of a frame.
Pointers == {<<-1, 5>>}
Wheels == {<<0, -120>>}
KeyCodes == {65}
Scrolls == {<<0, 300>>}
Sizes == {<<1280, 720>>}
Micros == {70001}
Jitters == {<<Word(40000, 1), Word(123, 456)>>}

\* Messages the engine has posted that the worklet has not handled.
MaxPending == 3

\* Messages waiting at the feeder's port that the worklet did not post.
MaxPosted == 1

Modes == {"pink", "brown"}

\* The message process() posts, and the other shapes of event.data the
\* feeder's handler tells apart: null, a primitive, an object without a
\* type, an object of another type.
NeedSeedMessage == [kind |-> "object", type |-> "need-seed"]
FeederMessages ==
  {[kind |-> "null"], [kind |-> "primitive"], [kind |-> "object"],
   [kind |-> "object", type |-> "other"], NeedSeedMessage}

\* What crypto.getRandomValues returns: the initial pool, and the eight
\* fresh words of one getWords(8) call.
InitialPool == [i \in 1..POOL_SIZE |-> Word(257 * i, 4369 * i)]
FreshBatches == {[i \in 1..8 |-> Word(65535 - i, 771 * i)]}

\* What crypto.getRandomValues may put in a new pool, a first slot of 0
\* included, and the words stirred: 0 (a frame delta of whole
\* milliseconds) and another.
StirPools == {InitialPool, [i \in 1..POOL_SIZE |-> IF i = 1 THEN W(0) ELSE Word(i, 771 * i)]}
StirWords == {W(0), Word(40000, 1)}

\* White samples given to a brown filter: the two extremes, the values
\* next to them, 0 and two values between.
WhiteInputs == {-Unit, 1 - Unit, -3333, 0, 5000, Unit - 1, Unit}

\* Payloads of initial-seeds messages: short, exact and long.
SeedWords(n, k) == [i \in 1..n |-> Word(k, i)]
InitialPayloads == {SeedWords(7, 1), SeedWords(8, 2), SeedWords(9, 3)}

\* Payloads of entropy-seeds messages: empty, one word, and a full batch.
EntropyPayloads == {SeedWords(0, 4), SeedWords(1, 5), SeedWords(8, 6)}

\* Payloads of entropy-seeds messages sent more than once: two full
\* batches, a batch of five words, an empty one and one of twelve words,
\* whose halves reach past the fourth word.
MixPayloads ==
  {SeedWords(8, 7), SeedWords(8, 8), SeedWords(5, 9), SeedWords(0, 10), SeedWords(12, 11)}

\* Samples rendered while batches are delivered repeatedly.
MaxMixSamples == 8

\* Samples rendered by the worklet that init() creates: enough for one
\* need-seed request.
MaxBootSamples == 12

\* Payloads of initial-seeds messages with words that are 0: all eight,
\* the four of the left channel only, and none.
ZeroPayloads ==
  {[i \in 1..8 |-> W(0)], [i \in 1..8 |-> IF i <= 4 THEN W(0) ELSE Word(3, i)],
   SeedWords(8, 2)}

\* Payloads that key the generators for single steps: the words 1..4,
\* words with the top bit set, all ones, and alternating bit patterns.
XoshiroPayloads ==
  {<<W(1), W(2), W(3), W(4),
     Word(65535, 65535), Word(65535, 65535), Word(65535, 65535), Word(65535, 65535)>>,
   <<Word(32768, 0), Word(32767, 65535), Word(57005, 48879), Word(4660, 22136),
     Word(21845, 21845), Word(43690, 43690), Word(65535, 0), Word(0, 65535)>>}

\* Blocks of one frame rendered in the single-step specification.
MaxSteps == 8

\* ---------------------------------------------------------------------
\* State
\* ---------------------------------------------------------------------

VARIABLES
  sampleRate,                 \* AudioWorkletGlobalScope.sampleRate
  stateL, stateR,             \* NoiseProcessor PRNG states
  currentMode, targetMode,
  crossfadeProgress,          \* a rational
  crossfadeSamplesRemaining,
  seedQueue,                  \* queue of seed batches (sequences of words)
  samplesSinceLastSeed,
  initialized,
  rng,                        \* EntropyRng: [pool, counter, stirIndex]
  port, intervalId, running,  \* EntropyFeeder: port connected, timer armed, running
  timers,                     \* interval timers armed and not cleared
  portStarted,                \* the node's port has had a handler assigned, so it dispatches
  toEngine,                   \* messages posted to the worklet port, in order
  toFeeder,                   \* messages posted by the worklet, in order
  \* history variables
  lastOp,                     \* the handler of the worklet that ran last
  rendered,                   \* samples rendered so far
  tUsed,                      \* values of t used for the gains in the last process()
  sinceArm,                   \* samples since a fade was armed from rest, -1 when a later set-mode arrived
  restAt,                     \* sinceArm at the first sample after which the fade was at rest, -1 before
  lastRequested,              \* mode of the last set-mode message handled
  run,                        \* process() calls since the last need-seed: [block, calls, below],
                              \* and of the last need-seed: the samples rendered before and after
                              \* its call (at, upTo) and since the need-seed before it (gap, handed)
  mixed,                      \* seed batches mixed by the last process()
  requests,                   \* need-seed messages posted so far
  outstanding,                \* need-seed messages not yet answered by an arrived batch
  initMsgs, fullMsgs,         \* initial-seeds messages handled: all, and those of 8 words or more
  out,                        \* the last process(): frames asked, frames written per channel, value returned
  white,                      \* the xoshiroNext results of the last sample rendered, per channel
  twin,                       \* the generators of a second processor that is sent the same messages
  lastTaken,                  \* the batch mixed most recently, as a sequence of at most one batch
  brown,                      \* a BrownState of the sample rate, stepped with chosen white samples
  pomodoro,                   \* PomodoroController: phase, elapsedMs, volumeOffsetDb (a fraction),
                              \* running, rafId set, animation frames pending, the last update
                              \* emitted, a bit that every emission flips, and of the last tick
                              \* its dtMs and the phase change it made
  engine,                     \* AudioEngine: its fields, and of its last method call the name,
                              \* the value passed, the ramps scheduled and the messages posted
  ambient                     \* EntropyRng's collection of ambient entropy: eventBuffer, rafId set,
                              \* animation-frame callbacks pending, listeners attached, whether
                              \* start() was called after the last stop(), counts of ticks and events

engineVars == <<stateL, stateR, currentMode, targetMode, crossfadeProgress,
                crossfadeSamplesRemaining, seedQueue, samplesSinceLastSeed, initialized>>
feederVars == <<rng, port, intervalId, running, timers, portStarted>>
fadeHist == <<tUsed, sinceArm, restAt, lastRequested>>
seedHist == <<run, mixed, requests, outstanding>>
keyHist == <<initMsgs, fullMsgs>>
outHist == <<out, white, twin, lastTaken, brown, pomodoro>>

vars == <<sampleRate, engineVars, feederVars, toEngine, toFeeder, lastOp, rendered,
          fadeHist, seedHist, keyHist, outHist, ambient, engine>>

\* Math.floor(sampleRate * 0.5)
seedRequestThreshold == (sampleRate * 5) \div 10

\* Math.floor(crossfadeDuration * sampleRate), crossfadeDuration = 0.05
CrossfadeSamples == (sampleRate * 5) \div 100

\* The seed queue depth below which process() may ask for seeds.
BackpressureDepth == 2

WORDS_PER_FEED == 8

\* ---------------------------------------------------------------------
\* NoiseProcessor
\* ---------------------------------------------------------------------

KnuthMultiplier == Word(40503, 31153)  \* 2654435761 = 0x9e3779b1
GoldenRatio == Word(40503, 31161)      \* 0x9e3779b9

\* fallbackSeeds[i] = ((currentFrame * 2654435761) ^ (i * 0x9e3779b9)) >>> 0
fallbackSeeds(currentFrame) ==
  [i \in 1..8 |-> Xor(Mul32(W(currentFrame), KnuthMultiplier), Mul32(W(i - 1), GoldenRatio))]

Constructor(currentFrame) ==
  /\ stateL = initState(SubSeq(fallbackSeeds(currentFrame), 1, 4))
  /\ stateR = initState(SubSeq(fallbackSeeds(currentFrame), 5, 8))
  /\ currentMode = "pink"
  /\ targetMode = "pink"
  /\ crossfadeProgress = RatOne
  /\ crossfadeSamplesRemaining = 0
  /\ seedQueue = <<>>
  /\ samplesSinceLastSeed = 0
  /\ initialized = FALSE

\* The end of a fade, tested after each faded sample.
CollapseLate(s) ==
  IF s.remaining < 0 THEN [s EXCEPT !.current = s.target, !.progress = RatOne] ELSE s

CollapseKeepsMode(s) ==
  IF s.remaining <= 0 THEN [s EXCEPT !.progress = RatOne] ELSE s

Collapse(s) ==
  IF s.remaining <= 0 THEN [s EXCEPT !.current = s.target, !.progress = RatOne] ELSE s

\* One iteration of the sample loop of process() on the record s; the
\* flag crossfading and the increment are those computed before the loop.
RenderSample(s, crossfading, increment) ==
  LET gen == [s EXCEPT !.L = xoshiroNext(s.L), !.R = xoshiroNext(s.R),
                       !.whiteL = xoshiroResult(s.L), !.whiteR = xoshiroResult(s.R),
                       !.outL = s.outL + 1, !.outR = s.outR + 1]
      faded == IF ~crossfading THEN gen
               ELSE Collapse([gen EXCEPT !.used = s.used \cup {s.progress},
                                         !.progress = RatAdd(s.progress, increment),
                                         !.remaining = s.remaining - 1])
      count == IF s.sinceArm < 0 THEN -1
               ELSE IF s.sinceArm > s.fadeLen THEN s.sinceArm ELSE s.sinceArm + 1
      atRest == /\ faded.remaining = 0
                /\ faded.progress = RatOne
                /\ faded.current = faded.target
  IN  [faded EXCEPT !.sinceArm = count,
                    !.restAt = IF s.restAt < 0 /\ count >= 0 /\ atRest THEN count ELSE s.restAt]

\* The sample loop: i iterations from the record s.
RECURSIVE RenderLoopOneShort(_, _, _, _)
RenderLoopOneShort(s, i, crossfading, increment) ==
  IF i <= 1 THEN s
  ELSE RenderLoopOneShort(RenderSample(s, crossfading, increment), i - 1,
                          crossfading, increment)

RECURSIVE RenderLoop(_, _, _, _)
RenderLoop(s, i, crossfading, increment) ==
  IF i = 0 THEN s
  ELSE RenderLoop(RenderSample(s, crossfading, increment), i - 1, crossfading, increment)

\* samplesSinceLastSeed after the check: reset by a request.
SinceKept(request, since) == since

SinceAfter(request, since) == IF request THEN 0 ELSE since

\* The condition under which process() posts need-seed.
NeedsSeedAnyDepth(since, depth) == since >= seedRequestThreshold

NeedsSeed(since, depth) == since >= seedRequestThreshold /\ depth < BackpressureDepth

\* The batches one process() call takes off the queue: seedQueue.shift().
TakeAllSeeds(queue) == queue

TakeNewestSeed(queue) == IF queue = <<>> THEN <<>> ELSE <<queue[Len(queue)]>>

TakeSeeds(queue) == IF queue = <<>> THEN <<>> ELSE <<Head(queue)>>

\* The words of a batch mixed into the left and into the right state.
LeftHalfWhole(seed) == seed

LeftHalf(seed) == SubSeq(seed, 1, Len(seed) \div 2)

RightHalfRoundedUp(seed) == SubSeq(seed, ((Len(seed) + 1) \div 2) + 1, Len(seed))

RightHalf(seed) == SubSeq(seed, (Len(seed) \div 2) + 1, Len(seed))

\* The two generator states after the batches taken are mixed in: the
\* first half of a batch goes to the left state, the rest to the right.
RECURSIVE MixSeeds(_, _)
MixSeeds(gens, taken) ==
  IF taken = <<>> THEN gens
  ELSE LET seed == Head(taken)
       IN  MixSeeds([L |-> mixEntropy(gens.L, LeftHalf(seed)),
                     R |-> mixEntropy(gens.R, RightHalf(seed))],
                    Tail(taken))

\* A processor without a second one beside it.
NoTwin == [kind |-> "off"]

\* The payload the second processor is sent in place of seeds: the same
\* words, or the words of one channel changed, the first split words
\* being those of the left channel.
Perturbed(kind, seeds, split) ==
  [i \in 1..Len(seeds) |->
     IF (kind = "right" /\ i > split) \/ (kind = "left" /\ i <= split)
     THEN Xor(seeds[i], Word(21845, 43690))
     ELSE seeds[i]]

\* The sample loop of process() from the generator states gens, with the
\* fade as it stands before the call.
RenderBlock(gens, blockSize) ==
  LET crossfading == crossfadeSamplesRemaining > 0
      crossfadeIncrement == IF crossfading THEN Rat(1, crossfadeSamplesRemaining) ELSE RatZero
  IN  RenderLoop([L |-> gens.L, R |-> gens.R,
                  whiteL |-> white.L, whiteR |-> white.R, outL |-> 0, outR |-> 0,
                  current |-> currentMode, target |-> targetMode,
                  progress |-> crossfadeProgress,
                  remaining |-> crossfadeSamplesRemaining,
                  used |-> {}, sinceArm |-> sinceArm, restAt |-> restAt,
                  fadeLen |-> CrossfadeSamples],
                 blockSize, crossfading, crossfadeIncrement)

\* process() with a stereo output of blockSize frames: outputs[0] holds
\* the two channels the node is created with, so neither early return is
\* taken. The pink and brown
\* filter states and the samples written are floating-point values that no
\* control decision reads; they are left out, and each sample advances
\* both generators once, as nextSignedFloat does.
Process(blockSize) ==
  /\ LET since == samplesSinceLastSeed + blockSize
         depth == Len(seedQueue)
         request == NeedsSeed(since, depth)
         taken == TakeSeeds(seedQueue)
         gens == MixSeeds([L |-> stateL, R |-> stateR], taken)
         s == RenderBlock(gens, blockSize)
         other == RenderBlock(
                    MixSeeds([L |-> twin.L, R |-> twin.R],
                             [j \in 1..Len(taken) |->
                                Perturbed(twin.kind, taken[j], Len(taken[j]) \div 2)]),
                    blockSize)
     IN  /\ toFeeder' = IF request THEN Append(toFeeder, NeedSeedMessage) ELSE toFeeder
         /\ samplesSinceLastSeed' = SinceAfter(request, since)
         /\ seedQueue' = SubSeq(seedQueue, Len(taken) + 1, Len(seedQueue))
         /\ stateL' = s.L
         /\ stateR' = s.R
         /\ currentMode' = s.current
         /\ crossfadeProgress' = s.progress
         /\ crossfadeSamplesRemaining' = s.remaining
         /\ tUsed' = s.used
         /\ sinceArm' = s.sinceArm
         /\ restAt' = s.restAt
         /\ run' = IF request
                   THEN [block |-> 0, calls |-> 0, below |-> TRUE,
                         at |-> rendered, upTo |-> rendered + blockSize,
                         gap |-> IF run.at < 0 THEN -1 ELSE rendered - run.at,
                         handed |-> IF run.at < 0 THEN -1
                                    ELSE rendered + blockSize - run.upTo]
                   ELSE [run EXCEPT
                           !.block = IF run.block \in {0, blockSize} THEN blockSize ELSE -1,
                           !.calls = run.calls + 1,
                           !.below = run.below /\ depth < 2]
         /\ mixed' = Len(taken)
         /\ lastTaken' = IF taken # <<>> THEN <<taken[Len(taken)]>> ELSE lastTaken
         /\ brown' = brown
         /\ pomodoro' = pomodoro
         /\ requests' = IF request THEN requests + 1 ELSE requests
         /\ outstanding' = IF request THEN outstanding + 1 ELSE outstanding
         /\ out' = [frames |-> blockSize, left |-> s.outL, right |-> s.outR, result |-> TRUE]
         /\ white' = [L |-> s.whiteL, R |-> s.whiteR]
         /\ twin' = IF twin.kind = "off" THEN twin
                    ELSE [twin EXCEPT !.L = other.L, !.R = other.R,
                                      !.whiteL = other.whiteL, !.whiteR = other.whiteR]
  /\ rendered' = rendered + blockSize
  /\ lastOp' = "process"
  /\ UNCHANGED <<sampleRate, targetMode, initialized, feederVars, toEngine,
                 lastRequested, keyHist, ambient, engine>>

\* A generator state after an accepted initial-seeds message.
KeyedStateMixed(old, words) == mixEntropy(old, words)

KeyedState(old, words) == initState(words)

\* The test of the initial-seeds case.
AcceptsAnyInitialSeeds(seeds) == Len(seeds) >= 8

AcceptsInitialSeeds(seeds) == ~initialized /\ Len(seeds) >= 8

\* handleMessage(msg): the effect on the processor's fields.
handleMessage(msg) ==
  /\ lastOp' = msg.type
  /\ CASE msg.type = "initial-seeds" ->
            /\ IF AcceptsInitialSeeds(msg.seeds)
               THEN /\ stateL' = KeyedState(stateL, SubSeq(msg.seeds, 1, 4))
                    /\ stateR' = KeyedState(stateR, SubSeq(msg.seeds, 5, 8))
                    /\ initialized' = TRUE
                    /\ twin' = IF twin.kind = "off" THEN twin
                               ELSE LET seeds == Perturbed(twin.kind, msg.seeds, 4)
                                    IN  [twin EXCEPT
                                           !.L = KeyedState(twin.L, SubSeq(seeds, 1, 4)),
                                           !.R = KeyedState(twin.R, SubSeq(seeds, 5, 8))]
               ELSE UNCHANGED <<stateL, stateR, initialized, twin>>
            /\ initMsgs' = initMsgs + 1
            /\ fullMsgs' = IF Len(msg.seeds) >= 8 THEN fullMsgs + 1 ELSE fullMsgs
            /\ UNCHANGED <<currentMode, targetMode, crossfadeProgress,
                           crossfadeSamplesRemaining, seedQueue, fadeHist, outstanding>>
       [] msg.type = "entropy-seeds" ->
            /\ seedQueue' = Append(seedQueue, msg.seeds)
            /\ outstanding' = IF msg.reply THEN outstanding - 1 ELSE outstanding
            /\ UNCHANGED <<stateL, stateR, initialized, currentMode, targetMode,
                           crossfadeProgress, crossfadeSamplesRemaining, fadeHist, keyHist,
                           twin>>
       [] msg.type = "set-mode" ->
            /\ IF msg.mode # targetMode
               THEN /\ targetMode' = msg.mode
                    /\ IF RatGeq(crossfadeProgress, RatOne)
                       THEN /\ crossfadeProgress' = RatZero
                            /\ crossfadeSamplesRemaining' = CrossfadeSamples
                       ELSE UNCHANGED <<crossfadeProgress, crossfadeSamplesRemaining>>
               ELSE UNCHANGED <<targetMode, crossfadeProgress, crossfadeSamplesRemaining>>
            /\ sinceArm' = IF /\ msg.mode # targetMode
                              /\ RatGeq(crossfadeProgress, RatOne)
                              /\ crossfadeSamplesRemaining <= 0
                           THEN 0 ELSE -1
            /\ restAt' = -1
            /\ lastRequested' = msg.mode
            /\ UNCHANGED <<stateL, stateR, initialized, currentMode, seedQueue, tUsed,
                           outstanding, keyHist, twin>>
  /\ UNCHANGED <<sampleRate, samplesSinceLastSeed, feederVars, toFeeder, rendered,
                 run, mixed, requests, out, white, lastTaken, brown, pomodoro,
                 ambient, engine>>

\* port.onmessage of the worklet on the oldest undelivered message.
Deliver ==
  /\ toEngine # <<>>
  /\ handleMessage(Head(toEngine))
  /\ toEngine' = Tail(toEngine)

\* A set-mode message from any sender arrives at the worklet.
ReceiveSetMode(mode) ==
  /\ rendered < MaxSamples
  /\ handleMessage([type |-> "set-mode", mode |-> mode])
  /\ UNCHANGED toEngine

\* An initial-seeds message from any sender arrives at the worklet.
ReceiveInitialSeeds(seeds) ==
  /\ initMsgs < MaxInitMsgs
  /\ handleMessage([type |-> "initial-seeds", seeds |-> seeds])
  /\ UNCHANGED toEngine

\* An entropy-seeds message from any sender arrives at the worklet.
ReceiveEntropySeeds(seeds) ==
  /\ Len(seedQueue) < MaxQueued
  /\ handleMessage([type |-> "entropy-seeds", seeds |-> seeds, reply |-> FALSE])
  /\ UNCHANGED toEngine

\* ---------------------------------------------------------------------
\* EntropyRng: ambient collection (EntropyRng.ts)
\* ---------------------------------------------------------------------

\* ((a & 0xffff) << 16) | (b & 0xffff), then >>> 0 in addEventEntropy.
PackHalves(a, b) == Word(a % Half, b % Half)

\* (micros) >>> 0 for an event time of micros microseconds.
TimeWord(micros) == Word((micros \div Half) % Half, micros % Half)

\* ((keyCode & 0xff) << 24) | (micros & 0xffffff), then >>> 0.
KeyWord(keyCode, micros) ==
  Word((keyCode % 256) * 256 + ((micros \div Half) % 256), micros % Half)

\* stir() of each word of a sequence in turn.
RECURSIVE StirAllNewestFirst(_, _)
StirAllNewestFirst(r, words) ==
  IF words = <<>> THEN r
  ELSE StirAllNewestFirst(stir(r, words[Len(words)]), SubSeq(words, 1, Len(words) - 1))

RECURSIVE StirAll(_, _)
StirAll(r, words) ==
  IF words = <<>> THEN r ELSE StirAll(stir(r, Head(words)), Tail(words))

\* The animation-frame callbacks pending after start(): scheduleRaf()
\* requests one more and keeps its id.
FramesAfterStart == ambient.frames + 1

\* start() of EntropyRng: the listeners are added (adding one twice adds
\* it once) and scheduleRaf() requests a frame.
RngStart ==
  /\ ambient.frames < MaxFrames
  /\ ambient' = [ambient EXCEPT !.listening = TRUE, !.rafId = TRUE,
                                !.frames = FramesAfterStart, !.collecting = TRUE]
  /\ UNCHANGED <<sampleRate, engineVars, feederVars, toEngine, toFeeder, lastOp, rendered,
                 fadeHist, seedHist, keyHist, outHist, engine>>

\* stop() of EntropyRng: the listeners are removed and the frame whose
\* id is kept is cancelled.
RngStop ==
  /\ ambient' = [ambient EXCEPT !.listening = FALSE, !.rafId = FALSE,
                                !.frames = IF ambient.rafId THEN @ - 1 ELSE @,
                                !.collecting = FALSE]
  /\ UNCHANGED <<sampleRate, engineVars, feederVars, toEngine, toFeeder, lastOp, rendered,
                 fadeHist, seedHist, keyHist, outHist, engine>>

\* The callback of requestAnimationFrame, for any pending request: two
\* timing words and the buffered event words are stirred in, the buffer
\* is emptied, and scheduleRaf() requests the next frame.
RafTick(timing) ==
  /\ ambient.frames > 0
  /\ ambient.ticks < MaxTicks
  /\ rng' = StirAll(rng, timing \o ambient.eventBuffer)
  /\ ambient' = [ambient EXCEPT !.eventBuffer = <<>>, !.rafId = TRUE, !.ticks = @ + 1]
  /\ UNCHANGED <<sampleRate, engineVars, port, intervalId, running, timers, portStarted,
                 toEngine, toFeeder, lastOp, rendered, fadeHist, seedHist, keyHist, outHist, engine>>

\* addEventEntropy(values) from a handler of an attached listener.
addEventEntropy(values) ==
  /\ ambient.listening
  /\ ambient.events < MaxEvents
  /\ ambient' = [ambient EXCEPT !.eventBuffer = @ \o values, !.events = @ + 1]
  /\ UNCHANGED <<sampleRate, engineVars, feederVars, toEngine, toFeeder, lastOp, rendered,
                 fadeHist, seedHist, keyHist, outHist, engine>>

onMouseMove ==
  \E p \in Pointers, t \in Micros : addEventEntropy(<<PackHalves(p[1], p[2]), TimeWord(t)>>)

onWheel ==
  \E d \in Wheels, t \in Micros : addEventEntropy(<<PackHalves(d[1], d[2]), TimeWord(t)>>)

onKeyDown ==
  \E k \in KeyCodes, t \in Micros : addEventEntropy(<<KeyWord(k, t)>>)

onScroll ==
  \E p \in Scrolls, t \in Micros : addEventEntropy(<<PackHalves(p[1], p[2]), TimeWord(t)>>)

onResize ==
  \E p \in Sizes, t \in Micros : addEventEntropy(<<PackHalves(p[1], p[2]), TimeWord(t)>>)

\* new EntropyRng(): a pool filled by crypto.getRandomValues, counter and
\* cursor 0.
RngConstruct(pool) ==
  /\ ambient.stirs = 0
  /\ rng' = [pool |-> pool, counter |-> 0, stirIndex |-> 0]
  /\ UNCHANGED <<sampleRate, engineVars, port, intervalId, running, timers, portStarted,
                 toEngine, toFeeder, lastOp, rendered, fadeHist, seedHist, keyHist, outHist,
                 ambient, engine>>

\* One call of the public method stir(word).
Stir(word) ==
  /\ ambient.stirs < MaxStirs
  /\ rng' = stir(rng, word)
  /\ ambient' = [ambient EXCEPT !.stirs = @ + 1]
  /\ UNCHANGED <<sampleRate, engineVars, port, intervalId, running, timers, portStarted,
                 toEngine, toFeeder, lastOp, rendered, fadeHist, seedHist, keyHist, outHist,
                 engine>>

\* nextFloat() called by the page: one nextU32().
NextFloat ==
  /\ rng.counter < MaxDraws
  /\ \E fresh \in FreshBatches : rng' = nextU32(rng, fresh[1]).rng
  /\ UNCHANGED <<sampleRate, engineVars, port, intervalId, running, timers, portStarted,
                 toEngine, toFeeder, lastOp, rendered, fadeHist, seedHist, keyHist, outHist,
                 ambient, engine>>

\* ---------------------------------------------------------------------
\* EntropyFeeder (EntropyFeeder.ts)
\* ---------------------------------------------------------------------

\* The test of sendSeeds(): this.port is set.
HasPortStale == portStarted

HasPortWhileRunning == port /\ running

HasPort == port

\* sendSeeds(): nothing without a port, otherwise getWords(8) and one
\* post. reply records whether the send answers a need-seed message.
sendSeeds(fresh, reply) ==
  IF ~HasPort THEN UNCHANGED <<rng, toEngine>>
  ELSE LET got == getWords(rng, WORDS_PER_FEED, fresh)
       IN  /\ rng' = got.rng
           /\ toEngine' = Append(toEngine, [type |-> "entropy-seeds",
                                            seeds |-> got.words, reply |-> reply])

\* The feeder sends at most MaxSends batches.
CanSend == ~HasPort \/ rng.counter + WORDS_PER_FEED <= WORDS_PER_FEED * MaxSends

\* connect(port): the handle is kept and the handler assigned.
FeederConnect ==
  /\ port' = TRUE
  /\ portStarted' = TRUE
  /\ UNCHANGED <<sampleRate, engineVars, rng, intervalId, running, timers, toEngine,
                 toFeeder, lastOp, rendered, fadeHist, seedHist, keyHist, outHist, ambient, engine>>

\* The early return of start().
NeverRunning == FALSE

AlreadyRunning == running

\* start()
FeederStart ==
  /\ CanSend
  /\ IF AlreadyRunning
     THEN UNCHANGED <<running, intervalId, timers, rng, toEngine>>
     ELSE /\ running' = TRUE
          /\ \E fresh \in FreshBatches : sendSeeds(fresh, FALSE)
          /\ intervalId' = TRUE
          /\ timers' = timers + 1
  /\ UNCHANGED <<sampleRate, engineVars, port, portStarted, toFeeder, lastOp, rendered,
                 fadeHist, seedHist, keyHist, outHist, ambient, engine>>

\* The timers left armed by stop(): clearInterval on the one kept.
TimersKept == timers

TimersAfterStop == IF intervalId THEN timers - 1 ELSE timers

\* stop()
FeederStop ==
  /\ running' = FALSE
  /\ timers' = TimersAfterStop
  /\ intervalId' = FALSE
  /\ UNCHANGED <<sampleRate, engineVars, rng, port, portStarted, toEngine, toFeeder,
                 lastOp, rendered, fadeHist, seedHist, keyHist, outHist, ambient, engine>>

\* dispose(): stop(), then the handler removed and the handle released.
FeederDispose ==
  /\ running' = FALSE
  /\ timers' = TimersAfterStop
  /\ intervalId' = FALSE
  /\ port' = FALSE
  /\ UNCHANGED <<sampleRate, engineVars, rng, portStarted, toEngine, toFeeder,
                 lastOp, rendered, fadeHist, seedHist, keyHist, outHist, ambient, engine>>

\* The callback of setInterval(..., FEED_INTERVAL_MS), for any armed timer.
FeederTick ==
  /\ timers > 0
  /\ CanSend
  /\ \E fresh \in FreshBatches : sendSeeds(fresh, FALSE)
  /\ UNCHANGED <<sampleRate, engineVars, port, intervalId, running, timers, portStarted,
                 toFeeder, lastOp, rendered, fadeHist, seedHist, keyHist, outHist, ambient, engine>>

\* The test of the handler on event.data.
IsObjectMessage(data) == data.kind # "null" /\ data.kind = "object"

IsNeedSeed(data) ==
  /\ data.kind # "null"
  /\ data.kind = "object"
  /\ "type" \in DOMAIN data
  /\ data.type = "need-seed"

\* port.onmessage of the feeder on the oldest message of the port.
FeederOnMessage ==
  /\ port
  /\ toFeeder # <<>>
  /\ CanSend
  /\ IF IsNeedSeed(Head(toFeeder))
     THEN \E fresh \in FreshBatches : sendSeeds(fresh, TRUE)
     ELSE UNCHANGED <<rng, toEngine>>
  /\ toFeeder' = Tail(toFeeder)
  /\ UNCHANGED <<sampleRate, engineVars, port, intervalId, running, timers, portStarted,
                 lastOp, rendered, fadeHist, seedHist, keyHist, outHist, ambient, engine>>

\* A message dispatched on the port after dispose() has removed the
\* handler: nothing handles it.
FeederDrop ==
  /\ portStarted
  /\ ~port
  /\ toFeeder # <<>>
  /\ toFeeder' = Tail(toFeeder)
  /\ UNCHANGED <<sampleRate, engineVars, feederVars, toEngine, lastOp, rendered,
                 fadeHist, seedHist, keyHist, outHist, ambient, engine>>

\* A message of any shape arrives at the feeder's end of the port.
PortPost(data) ==
  /\ Len(toFeeder) < MaxPosted
  /\ toFeeder' = Append(toFeeder, data)
  /\ UNCHANGED <<sampleRate, engineVars, feederVars, toEngine, lastOp, rendered,
                 fadeHist, seedHist, keyHist, outHist, ambient, engine>>

\* ---------------------------------------------------------------------
\* AudioEngine (AudioEngine.ts)
\* ---------------------------------------------------------------------

\* A call of an AudioEngine method: the fields it sets, the value it was
\* passed, the ramps it scheduled and the messages it posted.
Called(e, name, arg, ramps, posts) ==
  [e EXCEPT !.seq = 1 - @, !.call = name, !.last[name] = <<arg>>,
            !.ramps = ramps, !.posts = posts]

\* init(): returns at once when a context exists; otherwise creates the
\* context and the EntropyRng (which throws without crypto), starts the
\* collection and awaits addModule().
EngineInit(cryptoPresent) ==
  /\ IF engine.ctx
     THEN /\ engine' = [engine EXCEPT !.seq = 1 - @, !.call = "init", !.resolved = TRUE,
                                      !.ramps = 0, !.posts = 0]
          /\ UNCHANGED ambient
     ELSE IF ~cryptoPresent
     THEN /\ engine' = [engine EXCEPT !.seq = 1 - @, !.call = "init", !.ctx = TRUE,
                                      !.ramps = 0, !.posts = 0]
          /\ UNCHANGED ambient
     ELSE /\ engine' = [engine EXCEPT !.seq = 1 - @, !.call = "init", !.ctx = TRUE,
                                      !.entropyRng = TRUE, !.loading = TRUE,
                                      !.ramps = 0, !.posts = 0]
          /\ ambient' = [ambient EXCEPT !.listening = TRUE, !.rafId = TRUE,
                                        !.frames = FramesAfterStart, !.collecting = TRUE]
  /\ UNCHANGED <<sampleRate, engineVars, feederVars, toEngine, toFeeder, lastOp, rendered,
                 fadeHist, seedHist, keyHist, outHist>>

\* init() with the feeder started before initial-seeds is posted.
AddModuleResolvesFeederFirst ==
  /\ engine.loading
  /\ \E initialSeeds \in FreshBatches, fresh \in FreshBatches :
        LET got == getWords(rng, WORDS_PER_FEED, fresh)
        IN  /\ rng' = got.rng
            /\ toEngine' = toEngine \o
                 <<[type |-> "entropy-seeds", seeds |-> got.words, reply |-> FALSE],
                   [type |-> "initial-seeds", seeds |-> initialSeeds]>>
  /\ port' = TRUE
  /\ portStarted' = TRUE
  /\ running' = TRUE
  /\ intervalId' = TRUE
  /\ timers' = timers + 1
  /\ engine' = [engine EXCEPT !.loading = FALSE, !.noiseNode = TRUE, !.entropyFeeder = TRUE,
                              !.graph = TRUE, !.resolved = TRUE, !.posts = 2]
  /\ UNCHANGED <<sampleRate, engineVars, toFeeder, lastOp, rendered,
                 fadeHist, seedHist, keyHist, outHist, ambient>>

\* init() after addModule() resolves: the node is created, initial-seeds
\* posted, the feeder created, connected and started (its first batch is
\* posted), and the graph built.
AddModuleResolves ==
  /\ engine.loading
  /\ \E initialSeeds \in FreshBatches, fresh \in FreshBatches :
        LET got == getWords(rng, WORDS_PER_FEED, fresh)
        IN  /\ rng' = got.rng
            /\ toEngine' = toEngine \o
                 <<[type |-> "initial-seeds", seeds |-> initialSeeds],
                   [type |-> "entropy-seeds", seeds |-> got.words, reply |-> FALSE]>>
  /\ port' = TRUE
  /\ portStarted' = TRUE
  /\ running' = TRUE
  /\ intervalId' = TRUE
  /\ timers' = timers + 1
  /\ engine' = [engine EXCEPT !.loading = FALSE, !.noiseNode = TRUE, !.entropyFeeder = TRUE,
                              !.graph = TRUE, !.resolved = TRUE, !.posts = 2]
  /\ UNCHANGED <<sampleRate, engineVars, toFeeder, lastOp, rendered,
                 fadeHist, seedHist, keyHist, outHist, ambient>>

\* init() after addModule() rejects: the error is rethrown.
AddModuleRejects ==
  /\ engine.loading
  /\ engine' = [engine EXCEPT !.loading = FALSE]
  /\ UNCHANGED <<sampleRate, engineVars, feederVars, toEngine, toFeeder, lastOp, rendered,
                 fadeHist, seedHist, keyHist, outHist, ambient>>

\* setPlaying(playing)
SetPlaying(playing) ==
  /\ engine' = IF ~engine.ctx \/ ~engine.graph
               THEN Called(engine, "playing", playing, 0, 0)
               ELSE [Called(engine, "playing", playing, 1, 0) EXCEPT !.isMuted = ~playing]
  /\ UNCHANGED <<sampleRate, engineVars, feederVars, toEngine, toFeeder, lastOp, rendered,
                 fadeHist, seedHist, keyHist, outHist, ambient>>

\* setMode(mode)
SetMode(mode) ==
  /\ Len(toEngine) < MaxPending
  /\ IF mode = engine.currentMode
     THEN /\ engine' = Called(engine, "mode", mode, 0, 0)
          /\ UNCHANGED toEngine
     ELSE IF engine.noiseNode
     THEN /\ engine' = [Called(engine, "mode", mode, 0, 1) EXCEPT !.currentMode = mode]
          /\ toEngine' = Append(toEngine, [type |-> "set-mode", mode |-> mode])
     ELSE /\ engine' = [Called(engine, "mode", mode, 0, 0) EXCEPT !.currentMode = mode]
          /\ UNCHANGED toEngine
  /\ UNCHANGED <<sampleRate, engineVars, feederVars, toFeeder, lastOp, rendered,
                 fadeHist, seedHist, keyHist, outHist, ambient>>

\* setVolumeDb(db)
SetVolumeDb(db) ==
  /\ engine' = IF db = engine.values.volume
               THEN Called(engine, "volume", db, 0, 0)
               ELSE [Called(engine, "volume", db,
                            IF ~engine.isMuted /\ engine.ctx /\ engine.graph THEN 1 ELSE 0, 0)
                       EXCEPT !.values.volume = db]
  /\ UNCHANGED <<sampleRate, engineVars, feederVars, toEngine, toFeeder, lastOp, rendered,
                 fadeHist, seedHist, keyHist, outHist, ambient>>

\* setHpFreq, setLpFreq and setCrossfeedDb: field is "hp", "lp" or
\* "crossfeed"; each ramps the parameter of the left and of the right node.
SetStereoParam(field, value) ==
  /\ engine' = IF value = engine.values[field]
               THEN Called(engine, field, value, 0, 0)
               ELSE [Called(engine, field, value,
                            IF engine.ctx /\ engine.graph THEN 2 ELSE 0, 0)
                       EXCEPT !.values[field] = value]
  /\ UNCHANGED <<sampleRate, engineVars, feederVars, toEngine, toFeeder, lastOp, rendered,
                 fadeHist, seedHist, keyHist, outHist, ambient>>

\* ---------------------------------------------------------------------
\* A brown filter on its own
\* ---------------------------------------------------------------------

\* One brownFilter(brown, white) call.
BrownStep(input, up) ==
  /\ brown' = brownFilter(brown, input, up)
  /\ UNCHANGED <<sampleRate, engineVars, feederVars, toEngine, toFeeder, lastOp, rendered,
                 fadeHist, seedHist, keyHist, out, white, twin, lastTaken, pomodoro,
                 ambient, engine>>

\* ---------------------------------------------------------------------
\* PomodoroController (PomodoroController.ts). Times are in milliseconds
\* and a level in dB is a fraction <<numerator, denominator>>; the
\* low-pass random walk of stepLpf is left out.
\* ---------------------------------------------------------------------

WORK_DURATION_MS == 1500000
BREAK_DURATION_MS == 300000

\* A level that falls by 3 dB per half break for the whole break.
breakVolumeFalling(breakElapsedMs) == <<-3 * breakElapsedMs, BREAK_DURATION_MS \div 2>>

\* getBreakVolumeOffset(breakElapsedMs): 0 to -3 dB over the first half
\* of the break, -3 to 0 dB over the second.
getBreakVolumeOffset(breakElapsedMs) ==
  LET halfBreak == BREAK_DURATION_MS \div 2
  IN  IF breakElapsedMs < halfBreak
      THEN <<-3 * breakElapsedMs, halfBreak>>
      ELSE <<-3 * (halfBreak - (breakElapsedMs - halfBreak)), halfBreak>>

\* emitUpdate(): the controller p after the update is handed to onUpdate.
emitUpdate(p) ==
  LET duration == IF p.phase = "work" THEN WORK_DURATION_MS ELSE BREAK_DURATION_MS
      remainingMs == duration - p.elapsedMs
      ceiling == -((-remainingMs) \div 60000)
  IN  [p EXCEPT !.seq = 1 - @,
                !.update = [phase |-> p.phase,
                            minutes |-> IF ceiling > 1 THEN ceiling ELSE 1,
                            volumeOffsetDb |-> p.volumeOffsetDb]]

\* start(): nothing when running; otherwise a frame is requested and the
\* state is emitted.
PomodoroStart ==
  /\ pomodoro' = IF pomodoro.running THEN pomodoro
                 ELSE emitUpdate([pomodoro EXCEPT !.running = TRUE, !.rafId = TRUE,
                                                  !.frames = @ + 1])
  /\ UNCHANGED <<sampleRate, engineVars, feederVars, toEngine, toFeeder, lastOp, rendered,
                 fadeHist, seedHist, keyHist, out, white, twin, lastTaken, brown,
                 ambient, engine>>

\* stop(): the frame whose id is kept is cancelled and the state reset.
PomodoroStop ==
  /\ pomodoro' = [pomodoro EXCEPT !.running = FALSE, !.rafId = FALSE,
                                  !.frames = IF pomodoro.rafId THEN @ - 1 ELSE @,
                                  !.phase = "work", !.elapsedMs = 0,
                                  !.volumeOffsetDb = <<0, 1>>]
  /\ UNCHANGED <<sampleRate, engineVars, feederVars, toEngine, toFeeder, lastOp, rendered,
                 fadeHist, seedHist, keyHist, out, white, twin, lastTaken, brown,
                 ambient, engine>>

\* tick(now) of a pending frame, dtMs after the tick before it.
PomodoroTick(dtMs) ==
  /\ pomodoro.frames > 0
  /\ pomodoro' =
       IF ~pomodoro.running THEN [pomodoro EXCEPT !.frames = @ - 1]
       ELSE LET elapsed == pomodoro.elapsedMs + dtMs
                toBreak == pomodoro.phase = "work" /\ elapsed >= WORK_DURATION_MS
                toWork == pomodoro.phase = "break" /\ elapsed >= BREAK_DURATION_MS
                phase == IF toBreak THEN "break" ELSE IF toWork THEN "work"
                         ELSE pomodoro.phase
                after == IF toBreak \/ toWork THEN 0 ELSE elapsed
            IN  emitUpdate([pomodoro EXCEPT
                   !.phase = phase,
                   !.elapsedMs = after,
                   !.volumeOffsetDb = IF phase = "break" THEN getBreakVolumeOffset(after)
                                      ELSE <<0, 1>>,
                   !.rafId = TRUE,
                   !.dtMs = dtMs,
                   !.change = IF toBreak THEN "toBreak" ELSE IF toWork THEN "toWork"
                              ELSE "none"])
  /\ UNCHANGED <<sampleRate, engineVars, feederVars, toEngine, toFeeder, lastOp, rendered,
                 fadeHist, seedHist, keyHist, out, white, twin, lastTaken, brown,
                 ambient, engine>>

\* ---------------------------------------------------------------------
\* Specifications
\* ---------------------------------------------------------------------

\* The host stops rendering after limit samples, except to finish a fade.
CanRender(blockSize, limit) ==
  rendered + blockSize <= limit \/ crossfadeSamplesRemaining > 0

\* The host calls process() with a block of one of the sizes.
Render(limit) ==
  \E blockSize \in BlockSizes : CanRender(blockSize, limit) /\ Process(blockSize)

\* The worklet just constructed, the feeder and its pool just created.
Constructed ==
  /\ sampleRate \in SampleRates
  /\ \E currentFrame \in Frames : Constructor(currentFrame)
  /\ rng = [pool |-> InitialPool, counter |-> 0, stirIndex |-> 0]
  /\ port = FALSE
  /\ intervalId = FALSE
  /\ running = FALSE
  /\ timers = 0
  /\ portStarted = FALSE
  /\ toEngine = <<>>
  /\ toFeeder = <<>>
  /\ lastOp = "constructor"
  /\ rendered = 0
  /\ tUsed = {}
  /\ sinceArm = -1
  /\ restAt = -1
  /\ lastRequested = "pink"
  /\ run = [block |-> 0, calls |-> 0, below |-> TRUE, at |-> -1, upTo |-> -1,
            gap |-> -1, handed |-> -1]
  /\ mixed = 0
  /\ requests = 0
  /\ outstanding = 0
  /\ initMsgs = 0
  /\ fullMsgs = 0
  /\ out = [frames |-> 0, left |-> 0, right |-> 0, result |-> TRUE]
  /\ white = [L |-> W(0), R |-> W(0)]
  /\ lastTaken = <<>>
  /\ brown = initBrownState(sampleRate)
  /\ pomodoro = [phase |-> "work", elapsedMs |-> 0, volumeOffsetDb |-> <<0, 1>>,
                 running |-> FALSE, rafId |-> FALSE, frames |-> 0,
                 update |-> [phase |-> "none", minutes |-> 0, volumeOffsetDb |-> <<0, 1>>],
                 seq |-> 0, dtMs |-> 0, change |-> "none"]
  /\ engine = [ctx |-> FALSE, entropyRng |-> FALSE, noiseNode |-> FALSE,
               entropyFeeder |-> FALSE, graph |-> FALSE, loading |-> FALSE,
               resolved |-> FALSE, currentMode |-> "pink", isMuted |-> TRUE,
               values |-> [volume |-> -12, hp |-> 150, lp |-> 5000, crossfeed |-> -18],
               last |-> [playing |-> <<>>, mode |-> <<>>, volume |-> <<>>, hp |-> <<>>,
                         lp |-> <<>>, crossfeed |-> <<>>],
               seq |-> 0, call |-> "none", ramps |-> 0, posts |-> 0]
  /\ ambient = [eventBuffer |-> <<>>, rafId |-> FALSE, frames |-> 0, listening |-> FALSE,
                collecting |-> FALSE, ticks |-> 0, events |-> 0, stirs |-> 0]

Init == Constructed /\ twin = NoTwin

\* The worklet with mode requests only.
NextFade ==
  \/ \E mode \in Modes : ReceiveSetMode(mode)
  \/ Render(MaxSamples)

SpecFade == Init /\ [][NextFade]_vars

\* A step that renders a block: only process() advances the sample count.
Rendering ==
  \E blockSize \in BlockSizes :
    CanRender(blockSize, MaxSamples) /\ rendered' = rendered + blockSize

\* process() keeps being called with non-empty stereo blocks.
SpecFadeLive == SpecFade /\ WF_rendered(Rendering)

\* The worklet with mode requests that arrive only between fades.
NextFadeRest ==
  \/ \E mode \in Modes : crossfadeSamplesRemaining <= 0 /\ ReceiveSetMode(mode)
  \/ Render(MaxSamples)

SpecFadeRest == Init /\ [][NextFadeRest]_vars

\* The worklet and the feeder on the two directions of the node's port,
\* at the rate whose seed period is shortest.
InitSeed == Init /\ sampleRate = MinRate

NextSeed ==
  \/ FeederConnect
  \/ FeederStart
  \/ FeederTick
  \/ FeederOnMessage
  \/ Deliver
  \/ Render(MaxFedSamples)

SpecSeed == InitSeed /\ [][NextSeed]_vars

\* The same with a feeder whose timer and message handler never run: the
\* batch of start() arrives, the requests of the worklet stay unanswered.
NextUnfed ==
  \/ FeederConnect
  \/ FeederStart
  \/ Deliver
  \/ Render(MaxUnfedSamples)

SpecUnfed == InitSeed /\ [][NextUnfed]_vars

\* EntropyRng with its ambient sources, the page drawing single words and
\* the feeder drawing a batch.
NextRng ==
  \/ RngStart
  \/ RngStop
  \/ \E timing \in Jitters : RafTick(timing)
  \/ onMouseMove
  \/ onWheel
  \/ onKeyDown
  \/ onScroll
  \/ onResize
  \/ NextFloat
  \/ FeederConnect
  \/ FeederStart

SpecRng == InitSeed /\ [][NextRng]_vars

\* An EntropyRng just created and stirred one word at a time.
NextStir ==
  \/ \E pool \in StirPools : RngConstruct(pool)
  \/ \E word \in StirWords : Stir(word)

SpecStir == InitSeed /\ [][NextStir]_vars

\* The page's AudioEngine: init() and its two outcomes, the setters with
\* a default and another value, and the worklet handling what the engine
\* posts.
NextEngine ==
  \/ \E cryptoPresent \in BOOLEAN : EngineInit(cryptoPresent)
  \/ AddModuleResolves
  \/ AddModuleRejects
  \/ \E playing \in BOOLEAN : SetPlaying(playing)
  \/ \E mode \in Modes : SetMode(mode)
  \/ \E db \in {-12, -6} : SetVolumeDb(db)
  \/ \E setting \in {<<"hp", 150>>, <<"hp", 300>>, <<"lp", 8000>>, <<"crossfeed", -9>>} :
        SetStereoParam(setting[1], setting[2])
  \/ Deliver

SpecEngine == InitSeed /\ [][NextEngine]_vars

\* The page's AudioEngine started once, with the worklet it creates
\* rendering and the feeder it creates answering and ticking.
NextBoot ==
  \/ ~engine.ctx /\ \E cryptoPresent \in BOOLEAN : EngineInit(cryptoPresent)
  \/ AddModuleResolves
  \/ AddModuleRejects
  \/ FeederTick
  \/ FeederOnMessage
  \/ Deliver
  \/ engine.noiseNode /\ Render(MaxBootSamples)

SpecBoot == InitSeed /\ [][NextBoot]_vars

\* The feeder alone: its four methods, its timer and its handler, with
\* messages of any shape arriving on the port.
NextFeeder ==
  \/ FeederConnect
  \/ FeederStart
  \/ FeederStop
  \/ FeederDispose
  \/ FeederTick
  \/ FeederOnMessage
  \/ FeederDrop
  \/ \E data \in FeederMessages : PortPost(data)

SpecFeeder == InitSeed /\ [][NextFeeder]_vars

\* The worklet with initial-seeds messages of any payload.
InitKey == Init /\ sampleRate = MinRate

NextKey ==
  \/ \E seeds \in InitialPayloads : ReceiveInitialSeeds(seeds)
  \/ Render(MaxFedSamples)

SpecKey == InitKey /\ [][NextKey]_vars

\* The worklet keyed with chosen words and rendering one frame at a time,
\* so that every call of xoshiroNext is a step.
NextXoshiro ==
  \/ \E seeds \in XoshiroPayloads : ReceiveInitialSeeds(seeds)
  \/ CanRender(1, MaxSteps) /\ Process(1)

SpecXoshiro == InitKey /\ [][NextXoshiro]_vars

\* A second processor beside the first: constructed at another frame
\* ("same": it is then sent the same messages), or holding the same state
\* in one channel and another in the channel named by kind, whose words
\* it is then sent changed.
SecondProcessor(kind, currentFrame) ==
  [kind |-> kind,
   L |-> IF kind = "right" THEN stateL
         ELSE initState(SubSeq(fallbackSeeds(currentFrame), 1, 4)),
   R |-> IF kind = "left" THEN stateR
         ELSE initState(SubSeq(fallbackSeeds(currentFrame), 5, 8)),
   whiteL |-> white.L, whiteR |-> white.R]

\* Two processors sent the same messages and block sizes.
InitSame ==
  /\ Constructed
  /\ sampleRate = MinRate
  /\ \E currentFrame \in TwinFrames : twin = SecondProcessor("same", currentFrame)

\* Two processors that differ in one channel only.
InitApart ==
  /\ Constructed
  /\ sampleRate = MinRate
  /\ \E kind \in {"left", "right"}, currentFrame \in TwinFrames :
        twin = SecondProcessor(kind, currentFrame)

\* The worklet with seed messages of any payload, of both kinds.
NextPayload ==
  \/ \E seeds \in InitialPayloads : ReceiveInitialSeeds(seeds)
  \/ \E seeds \in EntropyPayloads : ReceiveEntropySeeds(seeds)
  \/ Render(MaxPayloadSamples)

SpecPayload == InitKey /\ [][NextPayload]_vars

\* The worklet sent entropy batches, the same one more than once, between
\* blocks.
NextMix ==
  \/ \E seeds \in MixPayloads : ReceiveEntropySeeds(seeds)
  \/ Render(MaxMixSamples)

SpecMix == InitKey /\ [][NextMix]_vars

\* The worklet keyed with payloads that hold zero words, then sent
\* entropy batches.
NextZero ==
  \/ \E seeds \in ZeroPayloads : ReceiveInitialSeeds(seeds)
  \/ \E seeds \in EntropyPayloads : ReceiveEntropySeeds(seeds)
  \/ Render(MaxMixSamples)

SpecZero == InitKey /\ [][NextZero]_vars

\* A brown filter of either sample rate given white samples without end.
NextBrown == \E input \in WhiteInputs, up \in BOOLEAN : BrownStep(input, up)

SpecBrown == Init /\ [][NextBrown]_vars

\* A PomodoroController started, stopped and ticked by animation frames
\* half a minute, a minute, seven and a half minutes and forty minutes
\* apart.
NextPomodoro ==
  \/ PomodoroStart
  \/ PomodoroStop
  \/ \E dtMs \in {30000, 60000, 450000, 2400000} : PomodoroTick(dtMs)

SpecPomodoro == InitSeed /\ [][NextPomodoro]_vars

SpecSame == InitSame /\ [][NextPayload]_vars

SpecApart == InitApart /\ [][NextPayload]_vars

\* ---------------------------------------------------------------------
\* Mode crossfade
\* ---------------------------------------------------------------------

\* C1: in every state the three conditions crossfadeSamplesRemaining = 0,
\* crossfadeProgress = 1 and currentMode = targetMode are equivalent (all
\* true at rest, all false while a transition is active).
C1_RestEquivalence ==
  /\ (crossfadeSamplesRemaining = 0) <=> (crossfadeProgress = RatOne)
  /\ (crossfadeProgress = RatOne) <=> (currentMode = targetMode)

\* C2: every value of crossfadeProgress used to compute the blend gains
\* lies in [0,1], and crossfadeSamplesRemaining is never negative.
C2_ProgressInUnitInterval ==
  /\ \A t \in tUsed : RatGeq(t, RatZero) /\ RatGeq(RatOne, t)
  /\ crossfadeSamplesRemaining >= 0

\* C3: a set-mode message handled while a transition is active
\* (crossfadeSamplesRemaining > 0) leaves crossfadeProgress,
\* crossfadeSamplesRemaining and currentMode unchanged.
C3_SetModeKeepsFade ==
  [][(lastOp' = "set-mode" /\ rendered' = rendered /\ crossfadeSamplesRemaining > 0) =>
       /\ crossfadeProgress' = crossfadeProgress
       /\ crossfadeSamplesRemaining' = crossfadeSamplesRemaining
       /\ currentMode' = currentMode]_vars

\* C4: a fade armed from rest starts with CrossfadeSamples samples
\* remaining and progress 0; with no further set-mode, the first sample
\* after which crossfadeSamplesRemaining = 0, crossfadeProgress = 1 and
\* currentMode = targetMode all hold is sample number CrossfadeSamples.
C4_FadeCompletesAfterR ==
  sinceArm >= 0 =>
    /\ sinceArm = 0 =>
          crossfadeSamplesRemaining = CrossfadeSamples /\ crossfadeProgress = RatZero
    /\ sinceArm < CrossfadeSamples =>
          /\ restAt = -1
          /\ crossfadeSamplesRemaining = CrossfadeSamples - sinceArm
          /\ currentMode # targetMode
    /\ sinceArm >= CrossfadeSamples =>
          restAt = CrossfadeSamples /\ currentMode = targetMode

\* A fade of several blocks that has ended inside a block.
C4_Witness ==
  /\ CrossfadeSamples > MaxBlock
  /\ sinceArm > CrossfadeSamples
  /\ restAt = CrossfadeSamples
  /\ currentMode = "brown"

\* C5: if process() keeps being called and requests stop arriving,
\* currentMode eventually equals the last requested mode and stays so.
C5_ReachesLastRequested == <>[](currentMode = lastRequested)

\* The requested mode has been reached after a fade of several blocks.
C5_Witness ==
  /\ CrossfadeSamples > MaxBlock
  /\ lastRequested = "brown"
  /\ currentMode = "brown"
  /\ crossfadeSamplesRemaining <= 0
  /\ rendered > CrossfadeSamples

\* ---------------------------------------------------------------------
\* Seed requests and the seed queue
\* ---------------------------------------------------------------------

Ceil(a, b) == (a + b - 1) \div b

\* C6: a process() call that sees a queue depth of 2 or more posts no
\* need-seed; while every call since the last need-seed has had the same
\* block size B and has seen a depth below 2, a call posts exactly one
\* need-seed if it is call number ceil(T/B) since then, and none otherwise.
C6_OneRequestPerPeriod ==
  [][rendered' # rendered =>
       LET B == rendered' - rendered
           depth == Len(seedQueue)
           posted == Len(toFeeder') - Len(toFeeder)
       IN  /\ posted \in {0, 1}
           /\ depth >= 2 => posted = 0
           /\ (run.below /\ depth < 2 /\ run.block \in {0, B}) =>
                (posted = 1 <=> run.calls + 1 = Ceil(seedRequestThreshold, B))]_vars

\* A call that saw two batches queued at the threshold posted nothing, and
\* a later call posted the first need-seed: without the queue the first
\* request comes within seedRequestThreshold + MaxBlock - 1 samples.
C6_Witness ==
  /\ lastOp = "process"
  /\ requests = 1
  /\ samplesSinceLastSeed = 0
  /\ rendered >= seedRequestThreshold + MaxBlock

\* C7: the number of need-seed requests not yet answered by an arrived
\* batch never exceeds a fixed bound.
C7_OutstandingCapped == outstanding <= BackpressureDepth

\* C8: a process() call takes at most one batch off the queue and mixes at
\* most one; an entropy-seeds message only appends to the queue and leaves
\* both generator states as they were.
C8_AtMostOneBatchPerBlock ==
  [][/\ rendered' # rendered =>
          Len(seedQueue') >= Len(seedQueue) - 1 /\ mixed' <= 1
     /\ (lastOp' = "entropy-seeds" /\ Len(toEngine') < Len(toEngine)) =>
          /\ Len(seedQueue') = Len(seedQueue) + 1
          /\ stateL' = stateL
          /\ stateR' = stateR]_vars

\* A call has mixed one batch and left another queued.
C8_Witness ==
  /\ lastOp = "process"
  /\ mixed = 1
  /\ Len(seedQueue) >= 1

\* C9: the depth of the seed queue never exceeds a fixed bound.
C9_QueueDepthBounded == Len(seedQueue) <= BackpressureDepth

\* ---------------------------------------------------------------------
\* Initial seeds
\* ---------------------------------------------------------------------

\* C10 as stated: every initial-seeds message after the first one
\* received leaves both generator states unchanged.
C10_OnlyFirstInitialSeeds ==
  [][(initMsgs' # initMsgs /\ initMsgs >= 1) =>
       stateL' = stateL /\ stateR' = stateR]_vars

\* C10 as amended: an initial-seeds message of fewer than 8 words, and
\* every initial-seeds message after the first one of 8 words or more,
\* leaves both generator states unchanged.
C10_OnlyFirstFullInitialSeeds ==
  [][(initMsgs' # initMsgs /\ (fullMsgs >= 1 \/ fullMsgs' = fullMsgs)) =>
       stateL' = stateL /\ stateR' = stateR]_vars

\* A second message of 8 words has been handled.
C10_Witness ==
  /\ lastOp = "initial-seeds"
  /\ fullMsgs >= 2
  /\ initialized

\* ---------------------------------------------------------------------
\* Payloads and the render path
\* ---------------------------------------------------------------------

\* C11: an initial-seeds message of fewer than 8 words leaves both
\* generator states as they were, and a process() call that takes an
\* entropy-seeds batch of fewer than 2 words off the queue leaves them as a
\* call without a batch would: advanced by the samples of the block only.
C11_ShortPayloadIgnored ==
  [][/\ (initMsgs' # initMsgs /\ fullMsgs' = fullMsgs) =>
          stateL' = stateL /\ stateR' = stateR
     /\ (rendered' # rendered /\ seedQueue # <<>> /\ Len(Head(seedQueue)) < 2) =>
          /\ stateL' = Advance(stateL, rendered' - rendered)
          /\ stateR' = Advance(stateR, rendered' - rendered)]_vars

\* C12: every process() call with an output of N frames writes all N
\* samples of both channels and returns true, whatever messages have or
\* have not arrived.
C12_FullBlockAlways ==
  [][rendered' # rendered =>
       /\ out'.frames = rendered' - rendered
       /\ out'.left = out'.frames
       /\ out'.right = out'.frames
       /\ out'.result]_vars

\* A full block rendered from the fallback states: no initial-seeds and no
\* batch ever arrived, and a need-seed has gone unanswered.
C12_Witness ==
  /\ out.frames = MaxBlock
  /\ out.left = MaxBlock
  /\ out.right = MaxBlock
  /\ ~initialized
  /\ rng.counter = 0
  /\ requests >= 1
  /\ toFeeder # <<>>

\* ---------------------------------------------------------------------
\* The feeder's timer and port
\* ---------------------------------------------------------------------

\* C13: a timer is armed only by start() on a stopped feeder, which then
\* runs, holds one timer and, when connected, has posted exactly one
\* batch in the same step; start() on a running feeder changes nothing,
\* and a tick of the timer on a connected feeder posts exactly one batch.
C13_StartOnceThenTicks ==
  [][/\ timers' > timers =>
          /\ ~running /\ timers = 0
          /\ running' /\ timers' = 1
          /\ port => /\ Len(toEngine') = Len(toEngine) + 1
                     /\ SubSeq(toEngine', 1, Len(toEngine)) = toEngine
                     /\ toEngine'[Len(toEngine')].type = "entropy-seeds"
     /\ (running /\ UNCHANGED <<running, timers, port, portStarted, toFeeder>>) =>
          /\ port
          /\ Len(toEngine') = Len(toEngine) + 1
          /\ SubSeq(toEngine', 1, Len(toEngine)) = toEngine
          /\ toEngine'[Len(toEngine')].type = "entropy-seeds"]_vars

C13_Witness ==
  /\ running /\ timers = 1 /\ port
  /\ Len(toEngine) >= 2
  /\ \A i \in 1..Len(toEngine) : ~toEngine[i].reply

\* C14: at most one interval timer is armed, one is armed exactly when
\* the feeder is running, and the kept timer id is set exactly then, so
\* that no tick can fire between stop() and the next start().
C14_OneTimerWhenRunning ==
  /\ timers \in {0, 1}
  /\ (timers = 1) <=> running
  /\ intervalId <=> running

C14_Witness ==
  /\ ~running /\ timers = 0 /\ ~intervalId
  /\ port
  /\ rng.counter >= 2 * WORDS_PER_FEED

\* C15: while the feeder holds no port, no step posts a batch or draws
\* words: not a tick, not a message of the released port, not start().
C15_NothingAfterDispose ==
  [][~port => toEngine' = toEngine /\ rng' = rng]_vars

C15_Witness ==
  /\ portStarted /\ ~port
  /\ running /\ timers = 1
  /\ toFeeder = <<>>
  /\ toEngine # <<>>

\* C16: on a connected feeder, handling a need-seed message posts exactly
\* one entropy-seeds message of eight words in that step, whether or not
\* a timer is armed, and handling a message of any other shape posts
\* nothing.
C16_NeedSeedAnswered ==
  [][(port /\ toFeeder # <<>> /\ toFeeder' = Tail(toFeeder)) =>
        IF Head(toFeeder) = [kind |-> "object", type |-> "need-seed"]
        THEN /\ Len(toEngine') = Len(toEngine) + 1
             /\ SubSeq(toEngine', 1, Len(toEngine)) = toEngine
             /\ toEngine'[Len(toEngine')].type = "entropy-seeds"
             /\ Len(toEngine'[Len(toEngine')].seeds) = 8
             /\ UNCHANGED <<timers, running>>
        ELSE toEngine' = toEngine /\ rng' = rng]_vars

C16_Witness ==
  /\ port /\ ~running /\ timers = 0
  /\ Len(toEngine) = 1
  /\ toEngine[1].reply
  /\ Len(toEngine[1].seeds) = 8

\* ---------------------------------------------------------------------
\* The generator step
\* ---------------------------------------------------------------------

\* C17: a block of one frame leaves each generator in the state, and
\* gives the result, that the xoshiro128++ step gives bit by bit modulo
\* 2^32; from the state {1, 2, 3, 4} the result is 641 and the state left
\* is {7, 0, 1026, 12288}.
C17_StepIsXoshiro ==
  [][rendered' = rendered + 1 =>
        /\ \A g \in {<<stateL, stateL', white'.L>>, <<stateR, stateR', white'.R>>} :
              LET step == StepBits(g[1])
              IN  /\ Bits(g[3]) = step.result
                  /\ Bits(g[2].s0) = step.s0
                  /\ Bits(g[2].s1) = step.s1
                  /\ Bits(g[2].s2) = step.s2
                  /\ Bits(g[2].s3) = step.s3
        /\ stateL = [s0 |-> <<0, 1>>, s1 |-> <<0, 2>>, s2 |-> <<0, 3>>, s3 |-> <<0, 4>>] =>
              /\ white'.L = <<0, 641>>
              /\ stateL' = [s0 |-> <<0, 7>>, s1 |-> <<0, 0>>,
                            s2 |-> <<0, 1026>>, s3 |-> <<0, 12288>>]]_vars

C17_Witness ==
  /\ rendered >= 1
  /\ white.L = <<0, 641>>
  /\ stateL = [s0 |-> <<0, 7>>, s1 |-> <<0, 0>>, s2 |-> <<0, 1026>>, s3 |-> <<0, 12288>>]
  /\ initialized

\* ---------------------------------------------------------------------
\* Determinism and channel independence
\* ---------------------------------------------------------------------

C19_ChannelsApart ==
  /\ twin.kind = "right" => twin.L = stateL /\ twin.whiteL = white.L
  /\ twin.kind = "left" => twin.R = stateR /\ twin.whiteR = white.R

C19_Witness ==
  /\ twin.kind = "right"
  /\ initialized
  /\ mixed >= 1
  /\ rendered >= MaxBlock
  /\ twin.R # stateR
  /\ twin.whiteR # white.R
  /\ twin.L = stateL

\* ---------------------------------------------------------------------
\* Word range
\* ---------------------------------------------------------------------

\* C20: after construction and after every keying, mixing and block, each
\* of s0..s3 of both generators and each result drawn is a word in
\* [0, 2^32), and the white sample made of a result is in [-1, 1).
C20_WordsInRange ==
  /\ \A state \in {stateL, stateR} : \A word \in {state.s0, state.s1, state.s2, state.s3} :
        word[1] \in 0..65535 /\ word[2] \in 0..65535
  /\ \A result \in {white.L, white.R} :
        /\ result[1] \in 0..65535 /\ result[2] \in 0..65535
        /\ nextSignedFloat(result)[1] \in -32768..32767
        /\ nextSignedFloat(result)[2] \in 0..65535

C20_Witness ==
  /\ initialized
  /\ mixed >= 1
  /\ rendered >= MaxBlock
  /\ nextSignedFloat(white.L)[1] < 0
  /\ nextSignedFloat(white.R)[1] >= 0

\* ---------------------------------------------------------------------
\* Mixing
\* ---------------------------------------------------------------------

\* C21: a process() that mixes a batch of two words or more equal to the
\* batch mixed just before it (the same batch delivered twice) leaves the
\* two generators where they would be had it mixed nothing: advanced by
\* the samples of the block only.
C21_DuplicateBatchChangesNothing ==
  [][(/\ rendered' # rendered
      /\ seedQueue # <<>>
      /\ lastTaken = <<Head(seedQueue)>>
      /\ Len(Head(seedQueue)) >= 2) =>
        /\ stateL' = Advance(stateL, rendered' - rendered)
        /\ stateR' = Advance(stateR, rendered' - rendered)]_vars

\* ---------------------------------------------------------------------
\* The entropy pool
\* ---------------------------------------------------------------------

\* C22: the pool has exactly eight words, each a 32-bit word, and the
\* write cursor stirIndex is an integer in 0..7, in every state reached
\* by stirring, drawing words, ambient events and animation frames.
C22_PoolAndCursorInRange ==
  /\ Len(rng.pool) = 8
  /\ \A i \in 1..8 : rng.pool[i][1] \in 0..65535 /\ rng.pool[i][2] \in 0..65535
  /\ rng.stirIndex \in 0..7

C22_Witness ==
  /\ ambient.ticks >= 1
  /\ ambient.events >= 1
  /\ ambient.eventBuffer = <<>>
  /\ rng.counter >= 9
  /\ rng.stirIndex = 5

\* C23: whenever stop() was called after the last start(), no
\* animation-frame callback is pending and no listener is attached.
C23_StoppedMeansQuiet ==
  ~ambient.collecting => ambient.frames = 0 /\ ~ambient.listening

\* ---------------------------------------------------------------------
\* The engine's interface
\* ---------------------------------------------------------------------

\* C24: once a call of init() has resolved, the worklet node, the feeder
\* and the graph exist.
C24_ResolvedMeansBuilt ==
  engine.resolved => engine.noiseNode /\ engine.entropyFeeder /\ engine.graph

\* C25: a call of a setter with the value of the previous call of the
\* same setter schedules no ramp and posts no message.
C25_RepeatedSetterDoesNothing ==
  [][(/\ engine'.seq # engine.seq
      /\ engine'.call # "init"
      /\ engine.last[engine'.call] = engine'.last[engine'.call]) =>
        engine'.ramps = 0 /\ engine'.posts = 0 /\ toEngine' = toEngine]_vars

\* C26: when init() has built the engine and every posted message has
\* been handled, the worklet's targetMode is the mode last passed to
\* setMode.
C26_WorkletHasLastMode ==
  (engine.graph /\ toEngine = <<>> /\ engine.last["mode"] # <<>>) =>
     targetMode = engine.last["mode"][1]

\* ---------------------------------------------------------------------
\* Fades and render blocks
\* ---------------------------------------------------------------------

\* C27: n samples after a fade of R samples was armed (n <= R, no mode
\* request since), crossfadeSamplesRemaining is R - n and
\* crossfadeProgress is what one block of n samples leaves, n / R (1 at
\* the end of the fade), however the n samples were split into blocks.
C27_FadeIndependentOfBlocks ==
  (sinceArm >= 0 /\ sinceArm <= CrossfadeSamples) =>
     /\ crossfadeSamplesRemaining = CrossfadeSamples - sinceArm
     /\ crossfadeProgress =
          IF sinceArm = CrossfadeSamples THEN RatOne ELSE Rat(sinceArm, CrossfadeSamples)

\* ---------------------------------------------------------------------
\* Pacing of seed requests
\* ---------------------------------------------------------------------

\* C28 as stated: at least seedRequestThreshold samples are rendered
\* between the emission of a need-seed and the emission of the next.
C28_ThresholdRenderedBetweenRequests ==
  run.gap >= 0 => run.gap >= seedRequestThreshold

\* C28, amended: a process() call posts at most one need-seed and, when
\* it posts one, leaves samplesSinceLastSeed at 0; the calls after the one
\* that posted a request, up to and including the one that posts the next,
\* are handed at least seedRequestThreshold samples in total, so that the
\* samples rendered between the two emissions fall short of the threshold
\* by no more than the difference of the two posting calls' block sizes.
C28_ThresholdHandedBetweenRequests ==
  [][rendered' # rendered =>
       LET posted == Len(toFeeder') - Len(toFeeder)
       IN  /\ posted \in {0, 1}
           /\ posted = 1 => samplesSinceLastSeed' = 0
           /\ (posted = 1 /\ run'.handed >= 0) =>
                /\ run'.handed >= seedRequestThreshold
                /\ \E a, b \in BlockSizes : run'.gap >= seedRequestThreshold - (a - b)]_vars

C28_Witness ==
  /\ requests >= 2
  /\ run.handed >= seedRequestThreshold
  /\ run.gap < seedRequestThreshold
  /\ samplesSinceLastSeed = 0

\* ---------------------------------------------------------------------
\* Order of mixing
\* ---------------------------------------------------------------------

\* C29: an entropy-seeds message puts its batch behind the batches
\* already queued, and every process() call with a batch queued takes the
\* oldest one and mixes it; so a batch that arrives behind k others is
\* mixed by the (k+1)-th call that follows, whatever arrives later.
C29_MixedInOrderReceived ==
  [][/\ (Len(toEngine') < Len(toEngine) /\ Head(toEngine).type = "entropy-seeds") =>
          seedQueue' = Append(seedQueue, Head(toEngine).seeds)
     /\ (rendered' # rendered /\ seedQueue # <<>>) =>
          LET batch == Head(seedQueue)
              half == Len(batch) \div 2
              n == rendered' - rendered
          IN  /\ seedQueue' = Tail(seedQueue)
              /\ lastTaken' = <<batch>>
              /\ stateL' = Advance(mixEntropy(stateL, SubSeq(batch, 1, half)), n)
              /\ stateR' = Advance(mixEntropy(stateR, SubSeq(batch, half + 1, Len(batch))), n)
     /\ (rendered' # rendered /\ seedQueue = <<>>) =>
          seedQueue' = <<>> /\ lastTaken' = lastTaken]_vars

C29_Witness ==
  /\ rng.counter = 3 * WORDS_PER_FEED
  /\ toEngine = <<>>
  /\ Len(seedQueue) = 1
  /\ lastTaken # <<>>
  /\ lastTaken[1] # seedQueue[1]
  /\ mixed = 1

\* ---------------------------------------------------------------------
\* What mixEntropy does to a generator
\* ---------------------------------------------------------------------

\* C30: a process() call that mixes a batch leaves each generator where
\* this leaves it: bit b of field s(j) is flipped once for every word i of
\* the generator's half with i mod 4 = j whose bit b - r(j) (mod 32) is
\* set, r = 0, 5, 13, 21; then 8 steps are taken whose results are not
\* used, and then the steps of the block. This for halves of 0, 2, 3, 4
\* and 6 words.
C30_MixIsRotateXorThenEightSteps ==
  [][(rendered' # rendered /\ seedQueue # <<>>) =>
       LET batch == Head(seedQueue)
           half == Len(batch) \div 2
           n == rendered' - rendered
           rotation == <<0, 5, 13, 21>>
           RECURSIVE Value(_, _, _)
           Value(bits, from, count) ==
             IF count = 0 THEN 0 ELSE bits[from] + 2 * Value(bits, from + 1, count - 1)
           FromBits(bits) == <<Value(bits, 16, 16), Value(bits, 0, 16)>>
           Flips(words, j, b) ==
             Cardinality({i \in 0..(Len(words) - 1) :
                            i % 4 = j /\ BitOf(words[i + 1], (b + 32 - rotation[j + 1]) % 32) = 1})
           Field(word, words, j) ==
             FromBits([b \in 0..31 |-> (BitOf(word, b) + Flips(words, j, b)) % 2])
           Mixed(state, words) ==
             [s0 |-> Field(state.s0, words, 0), s1 |-> Field(state.s1, words, 1),
              s2 |-> Field(state.s2, words, 2), s3 |-> Field(state.s3, words, 3)]
           left == Mixed(stateL, SubSeq(batch, 1, half))
           right == Mixed(stateR, SubSeq(batch, half + 1, Len(batch)))
       IN  /\ stateL' = Advance(left, 8 + n)
           /\ stateR' = Advance(right, 8 + n)
           /\ white'.L = xoshiroResult(Advance(left, 8 + n - 1))
           /\ white'.R = xoshiroResult(Advance(right, 8 + n - 1))]_vars

C30_Witness ==
  /\ lastTaken = <<SeedWords(0, 10)>>
  /\ seedQueue = <<SeedWords(12, 11)>>
  /\ rendered >= 1

\* ---------------------------------------------------------------------
\* The split of a batch between the channels
\* ---------------------------------------------------------------------

\* C31: a process() call that mixes a batch of n words mixes words
\* 0..floor(n/2)-1 into the left state and words floor(n/2)..n-1 into the
\* right state, each half counted from its own first word; the two halves
\* put end to end are the batch, so every word is used once, in one
\* channel.
C31_BatchSplitBetweenChannels ==
  [][(rendered' # rendered /\ seedQueue # <<>>) =>
       LET batch == Head(seedQueue)
           n == Len(batch)
           h == n \div 2
           forLeft == [i \in 1..h |-> batch[i]]
           forRight == [i \in 1..(n - h) |-> batch[h + i]]
       IN  /\ forLeft \o forRight = batch
           /\ Len(forLeft) + Len(forRight) = n
           /\ stateL' = Advance(mixEntropy(stateL, forLeft), rendered' - rendered)
           /\ stateR' = Advance(mixEntropy(stateR, forRight), rendered' - rendered)]_vars

C31_Witness ==
  /\ lastTaken = <<SeedWords(5, 9)>>
  /\ seedQueue = <<>>
  /\ rendered >= 1

\* ---------------------------------------------------------------------
\* The fixed point of the generator
\* ---------------------------------------------------------------------

\* C32: in every reachable state, neither the left nor the right
\* generator holds s0 = s1 = s2 = s3 = 0.
C32_StateNeverAllZero ==
  LET allZero == [s0 |-> W(0), s1 |-> W(0), s2 |-> W(0), s3 |-> W(0)]
  IN  stateL # allZero /\ stateR # allZero

\* ---------------------------------------------------------------------
\* The effect of stir
\* ---------------------------------------------------------------------

\* C33 as stated: a stir() call leaves the slot at the cursor with a
\* value different from the one it had, leaves the other seven slots and
\* the counter as they were, and moves the cursor on by one modulo 8.
C33_StirChangesSlotAtCursor ==
  [][ambient'.stirs # ambient.stirs =>
       /\ rng'.pool[rng.stirIndex + 1] # rng.pool[rng.stirIndex + 1]
       /\ \A i \in 0..7 : i # rng.stirIndex => rng'.pool[i + 1] = rng.pool[i + 1]
       /\ rng'.counter = rng.counter
       /\ rng'.stirIndex = (rng.stirIndex + 1) % 8]_vars

\* C33 amended: a stir() call writes the slot at the cursor and no other:
\* the other seven slots and the counter are as they were, the pool still
\* has 8 words, the cursor has moved on by one modulo 8, and the slot at
\* the cursor holds the mix of its old value and the word, which is its
\* old value when both are 0.
C33_StirWritesOnlySlotAtCursor ==
  [][ambient'.stirs # ambient.stirs =>
       /\ \A i \in 0..7 : i # rng.stirIndex => rng'.pool[i + 1] = rng.pool[i + 1]
       /\ Len(rng'.pool) = 8
       /\ rng'.counter = rng.counter
       /\ rng'.stirIndex = (rng.stirIndex + 1) % 8
       /\ \E word \in StirWords :
            LET blend == Xor(rng.pool[rng.stirIndex + 1], rotl32(word, 13))
            IN  rng'.pool[rng.stirIndex + 1] =
                  Xor(Mul32(blend, GoldenRatio), rotl32(blend, 17))
       /\ (rng.pool[rng.stirIndex + 1] = W(0) /\ rng'.pool[rng.stirIndex + 1] # W(0)) =>
            \E word \in StirWords \ {W(0)} : rng' = stir(rng, word)]_vars

C33_Witness ==
  /\ ambient.stirs = MaxStirs
  /\ rng.stirIndex = 0
  /\ rng.counter = 0
  /\ rng.pool[1] = W(0)
  /\ rng.pool[2] # Word(2, 1542)

\* ---------------------------------------------------------------------
\* Drawing words
\* ---------------------------------------------------------------------

\* C34: a step that draws n words (one by nextFloat(), 8 by the feeder's
\* getWords(8)) is n calls in order, each of which adds 1 to the counter,
\* mixes the new counter into the slot at the cursor, returns the fresh
\* word XOR the slot counter mod 8 as it is after that, and mixes the
\* returned word into the next slot: the counter is n higher, the cursor
\* 2n further modulo 8, and the batch posted holds the n returned words
\* in the order drawn.
C34_DrawIsCountStirXorStir ==
  [][rng'.counter # rng.counter =>
       LET n == rng'.counter - rng.counter
           RECURSIVE Draws(_, _, _, _, _)
           Draws(pool, words, cursor, fresh, i) ==
             IF i > n THEN [pool |-> pool, words |-> words]
             ELSE LET c == rng.counter + i
                      first == mixWord(pool, W(c), cursor)
                      output == Xor(fresh[i], first[(c % 8) + 1])
                  IN  Draws(mixWord(first, output, (cursor + 1) % 8),
                            Append(words, output), (cursor + 2) % 8, fresh, i + 1)
       IN  /\ n \in {1, 8}
           /\ rng'.stirIndex = (rng.stirIndex + 2 * n) % 8
           /\ \E fresh \in FreshBatches :
                /\ n = 8 => /\ Len(toEngine') = Len(toEngine) + 1
                            /\ Draws(rng.pool, <<>>, rng.stirIndex, fresh, 1)
                                 = [pool |-> rng'.pool,
                                    words |-> toEngine'[Len(toEngine')].seeds]
                /\ n = 1 => /\ toEngine' = toEngine
                            /\ Draws(rng.pool, <<>>, rng.stirIndex, fresh, 1).pool
                                 = rng'.pool]_vars

C34_Witness ==
  /\ rng.counter = 9
  /\ rng.stirIndex = 4
  /\ ambient.ticks = 1
  /\ Len(toEngine) = 1
  /\ Len(toEngine[1].seeds) = 8

\* ---------------------------------------------------------------------
\* Ambient events and the animation frame
\* ---------------------------------------------------------------------

\* C35: a handler of an ambient event leaves the pool, the cursor and the
\* counter alone and puts one or two 32-bit words at the end of the event
\* buffer; the buffer changes in no other step but an animation frame,
\* which stirs its two timing words and then the buffered words, oldest
\* first, and leaves the buffer empty.
C35_HandlersBufferFrameStirs ==
  [][/\ ambient'.events # ambient.events =>
          /\ rng' = rng
          /\ Len(ambient'.eventBuffer) - Len(ambient.eventBuffer) \in {1, 2}
          /\ SubSeq(ambient'.eventBuffer, 1, Len(ambient.eventBuffer)) = ambient.eventBuffer
          /\ \A i \in 1..Len(ambient'.eventBuffer) :
               /\ ambient'.eventBuffer[i][1] \in 0..65535
               /\ ambient'.eventBuffer[i][2] \in 0..65535
     /\ ambient'.ticks # ambient.ticks =>
          /\ ambient'.eventBuffer = <<>>
          /\ rng'.counter = rng.counter
          /\ rng'.stirIndex = (rng.stirIndex + 2 + Len(ambient.eventBuffer)) % 8
          /\ \E timing \in Jitters :
               LET words == timing \o ambient.eventBuffer
                   RECURSIVE Pool(_)
                   Pool(k) ==
                     IF k = 0 THEN rng.pool
                     ELSE mixWord(Pool(k - 1), words[k], (rng.stirIndex + k - 1) % 8)
               IN  rng'.pool = Pool(Len(words))
     /\ ambient'.eventBuffer # ambient.eventBuffer =>
          ambient'.events # ambient.events \/ ambient'.ticks # ambient.ticks]_vars

C35_Witness ==
  /\ ambient.ticks = 1
  /\ ambient.events = 1
  /\ ambient.eventBuffer = <<>>
  /\ rng.counter = 0
  /\ rng.stirIndex = 4

\* ---------------------------------------------------------------------
\* The brown accumulator
\* ---------------------------------------------------------------------

\* C36: after any number of brownFilter steps with white samples in
\* [-1, 1], rounded either way, the accumulator b is within [-1, 1], and
\* decay, scale and gain are what initBrownState computed.
C36_BrownStaysInUnitRange ==
  /\ brown.b >= -Unit
  /\ brown.b <= Unit
  /\ brown.decay > 0
  /\ brown.decay < Unit
  /\ brown.decay = initBrownState(sampleRate).decay
  /\ brown.gain = initBrownState(sampleRate).gain
  /\ brown.scale = Unit - brown.decay
  /\ LET ratio == ((Unit + brown.decay) * Unit) \div (Unit - brown.decay)
     IN  \E root \in {2 * brown.gain, 2 * brown.gain + 1} :
           root * root <= ratio * Unit /\ (root + 1) * (root + 1) > ratio * Unit

C36_Witness ==
  /\ brown.b = -Unit
  /\ sampleRate = MaxRate

\* ---------------------------------------------------------------------
\* The order of the first messages
\* ---------------------------------------------------------------------

\* C37: the worklet handles the initial-seeds message of init() before
\* any entropy-seeds batch: no batch is queued or mixed while initialized
\* is false, every batch in flight to a worklet that is not yet keyed is
\* behind an initial-seeds message, and the message that keys the
\* generators finds that no batch was mixed before it.
C37_InitialSeedsBeforeEntropy ==
  [][/\ (seedQueue' # <<>> \/ lastTaken' # <<>>) => initialized'
     /\ \A j \in 1..Len(toEngine') :
          (toEngine'[j].type = "entropy-seeds" /\ ~initialized') =>
             \E i \in 1..(j - 1) : toEngine'[i].type = "initial-seeds"
     /\ (initialized' /\ ~initialized) =>
          /\ Head(toEngine).type = "initial-seeds"
          /\ lastTaken = <<>>
          /\ seedQueue = <<>>
          /\ mixed = 0]_vars

C37_Witness ==
  /\ engine.graph
  /\ initialized
  /\ lastTaken # <<>>
  /\ rendered >= MaxBlock
  /\ seedQueue # <<>>

\* ---------------------------------------------------------------------
\* A stopped feeder
\* ---------------------------------------------------------------------

\* C38: stop() on a connected feeder disarms the timer and does nothing
\* else: the port, its handler and the messages waiting on it are kept and
\* nothing is sent. A connected feeder that is not running, whether it was
\* stopped or never started, answers each need-seed message it handles
\* with one entropy-seeds batch of eight words, and sends nothing
\* otherwise.
C38_StoppedFeederStillAnswers ==
  [][/\ (intervalId /\ ~intervalId' /\ port /\ port') =>
          /\ ~running'
          /\ timers' = timers - 1
          /\ UNCHANGED <<portStarted, toEngine, toFeeder, rng>>
     /\ (port /\ ~running /\ ~running' /\ toFeeder # <<>> /\ toFeeder' = Tail(toFeeder)
           /\ Head(toFeeder) = NeedSeedMessage) =>
          /\ Len(toEngine') = Len(toEngine) + 1
          /\ SubSeq(toEngine', 1, Len(toEngine)) = toEngine
          /\ toEngine'[Len(toEngine')].type = "entropy-seeds"
          /\ toEngine'[Len(toEngine')].reply
          /\ Len(toEngine'[Len(toEngine')].seeds) = WORDS_PER_FEED
          /\ rng'.counter = rng.counter + WORDS_PER_FEED
          /\ port' /\ timers' = timers
     /\ (~running /\ ~running' /\ timers = 0 /\ toEngine' # toEngine) =>
          /\ port
          /\ toFeeder # <<>>
          /\ Head(toFeeder) = NeedSeedMessage
          /\ toFeeder' = Tail(toFeeder)
          /\ Len(toEngine') = Len(toEngine) + 1]_vars

C38_Witness ==
  /\ port /\ ~running /\ ~intervalId /\ timers = 0
  /\ Len(toEngine) = 2
  /\ ~toEngine[1].reply
  /\ toEngine[2].reply
  /\ toFeeder = <<>>

\* ---------------------------------------------------------------------
\* The pomodoro cycle
\* ---------------------------------------------------------------------

\* C39: a tick of a running controller changes the phase exactly when
\* the elapsed time of the phase, the tick's dtMs included, has reached
\* 25 min in work or 5 min in break, work going to break and break to
\* work, and then the elapsed time is 0; the update emitted carries 0 dB
\* in work and a level within [-3, 0] dB in break, and minutes of 1 or
\* more; a controller that is not running is in work with elapsed 0, has
\* no frame pending and emits nothing.
C39_PomodoroCycle ==
  [][LET p == pomodoro
         q == pomodoro'
         reached == p.elapsedMs + q.dtMs >= (IF p.phase = "work" THEN 25 ELSE 5) * 60000
     IN  /\ (p.running /\ q.running /\ q.seq # p.seq) =>
               /\ q.phase # p.phase <=> reached
               /\ reached => q.elapsedMs = 0
               /\ ~reached => q.elapsedMs = p.elapsedMs + q.dtMs
               /\ q.update.phase = q.phase
         /\ q.seq # p.seq =>
               /\ q.running
               /\ q.update.minutes >= 1
               /\ q.update.phase = "work" => q.update.volumeOffsetDb[1] = 0
               /\ q.update.phase = "break" =>
                    /\ q.update.volumeOffsetDb[1] <= 0
                    /\ q.update.volumeOffsetDb[1] >= -3 * q.update.volumeOffsetDb[2]
                    /\ q.update.volumeOffsetDb[2] > 0
         /\ ~q.running =>
               /\ q.seq = p.seq
               /\ q.phase = "work"
               /\ q.elapsedMs = 0
               /\ q.frames = 0]_vars

C39_Witness ==
  /\ pomodoro.running
  /\ pomodoro.change = "toWork"
  /\ pomodoro.phase = "work"
  /\ pomodoro.elapsedMs = 0
  /\ pomodoro.update = [phase |-> "work", minutes |-> 25, volumeOffsetDb |-> <<0, 1>>]

====
